---- MODULE Spec2Model ----
(***************************************************************************)
(* The VQL command layer of cutevariant (core/command.py) and the query    *)
(* compiler it calls (core/querybuilder.py), as a state machine over one   *)
(* sqlite connection.                                                      *)
(*                                                                         *)
(* The connection is modelled by two copies of the database: db, what the  *)
(* connection sees (committed data plus its open transaction), and         *)
(* committed, what is durable.  conn.commit() copies db to committed.      *)
(* The commands never roll back.                                           *)
(*                                                                         *)
(* A Python dictionary is a TLA+ record, the empty dictionary {} is <<>>   *)
(* (the record with no field), len(d) is Cardinality(DOMAIN d).            *)
(***************************************************************************)
EXTENDS Integers, Sequences, FiniteSets, TLC

VARIABLES
    db,         \* the database as seen through the connection
    committed,  \* the durable database
    cache,      \* the memo of @cached count_cmd: [key, value], oldest use first
    pc,         \* per caller: position in the command it is running
    call,       \* per caller: the command and its arguments
    local,      \* per caller: the handler's local variables
    result,     \* per caller: what the command returned, yielded or raised
    trace,      \* per caller: the database steps of the running command
    faults      \* number of SQL statements that have failed so far

vars == <<db, committed, cache, pc, call, local, result, trace, faults>>

---------------------------------------------------------------------------
(* Bounds of the model *)

\* rows of the variants table
NumVariants == 3
\* largest rowid the selections table may use
MaxSelections == 3
\* SQL statements that may fail in one run
MaxFaults == 1

---------------------------------------------------------------------------
(* Python values *)

\* None, where a name is expected
None == "None"
\* the empty dictionary, the empty list
EmptyDict == <<>>
\* a local variable that was never assigned
Unbound == [unbound |-> TRUE]


\* A value whose Python type the code tests (isinstance) carries its type:
\* a str, an int, a tuple, a list.
PyStr(s) == [str |-> s]
PyInt(n) == [int |-> n]
PyTuple(t) == [tuple |-> t]
PyList(l) == [list |-> l]
IsStr(v) == DOMAIN v = {"str"}
IsInt(v) == DOMAIN v = {"int"}
IsTuple(v) == DOMAIN v = {"tuple"}
IsList(v) == DOMAIN v = {"list"}

\* an optional integer (limit, offset): None is <<>>, n is <<n>>
NoneInt == <<>>
SomeInt(n) == <<n>>

Max(S) == CHOOSE m \in S : \A x \in S : x <= m

---------------------------------------------------------------------------
(* Strings: str.join, the in operator, str.translate *)

RECURSIVE JoinStr(_, _)
JoinStr(sep, strs) ==
    IF strs = <<>> THEN ""
    ELSE IF Len(strs) = 1 THEN strs[1]
    ELSE strs[1] \o sep \o JoinStr(sep, Tail(strs))

\* sub in s
Contains(s, sub) ==
    \E i \in 1..(Len(s) - Len(sub) + 1) : SubSeq(s, i, i + Len(sub) - 1) = sub

\* faulty variant of Translate: only the first character of from is mapped
RECURSIVE Translate_first_only(_, _, _)
Translate_first_only(s, from, c) ==
    IF s = "" THEN ""
    ELSE (IF Head(from) = Head(s) THEN c ELSE Head(s))
         \o Translate_first_only(Tail(s), from, c)

\* s.translate(str.maketrans(from, to)) with every character of from mapped to c
RECURSIVE Translate(_, _, _)
Translate(s, from, c) ==
    IF s = "" THEN ""
    ELSE (IF Contains(from, Head(s)) THEN c ELSE Head(s)) \o Translate(Tail(s), from, c)

WordChars == "abcdefghijklmnopqrstuvwxyzABCDEFGHIJKLMNOPQRSTUVWXYZ0123456789_"
IsWordChar(c) == Contains(WordChars, c)

\* length of the longest prefix of s matching \w*
RECURSIVE WordPrefixLen(_)
WordPrefixLen(s) ==
    IF s = "" \/ ~IsWordChar(Head(s)) THEN 0 ELSE 1 + WordPrefixLen(Tail(s))

LowerChars == "abcdefghijklmnopqrstuvwxyz"
UpperChars == "ABCDEFGHIJKLMNOPQRSTUVWXYZ"

\* str.upper
RECURSIVE Upper(_)
Upper(s) ==
    IF s = "" THEN ""
    ELSE LET c == Head(s)
             up == IF Contains(LowerChars, c)
                   THEN LET i == CHOOSE j \in 1..Len(LowerChars) : SubSeq(LowerChars, j, j) = c
                        IN  SubSeq(UpperChars, i, i)
                   ELSE c
         IN  up \o Upper(Tail(s))


---------------------------------------------------------------------------
(* The data the commands only read: variants, annotations, the catalogs *)

Variants == 1..NumVariants

\* column a of the variants table
VariantA(v) == IF v % 2 = 1 THEN 3 ELSE 5

\* number of annotation rows of variant v (a variant may have none or several)
NumAnnotations(v) == v % 3

\* column impact of the k-th annotation row of variant v
AnnotationImpact(v, k) == "HIGH"

\* sql.get_fields: field name -> category (table)
default_tables == [a |-> "variants", impact |-> "annotations"]

\* sql.get_samples: sample name -> id
samples_ids == [sacha |-> 1]

---------------------------------------------------------------------------
(* Callers and inputs *)

\* threads that run commands on the shared connection
Workers == {1, 2}
\* the caller of the sequential specification
MainWorker == CHOOSE w \in Workers : \A v \in Workers : w <= v

SelectionNames == {"A", "B"}


---------------------------------------------------------------------------
(* core/querybuilder.py *)

\* the backquote that quotes an SQL identifier, written ^ here (a TLA+ string
\* cannot hold a backquote)
BQ == "^"

GENOTYPE_FUNC_NAME == "sample"
SET_FUNC_NAME == "set"

\* a filter node is a condition when it has three keys
is_field(node) == Cardinality(DOMAIN node) = 3

\* the key of a logic node
logic_op(node) == CHOOSE k \in DOMAIN node : TRUE

RECURSIVE filters_to_flat(_)
RECURSIVE flat_children(_)
\* faulty variant of flat_children: the list is walked from its end
flat_children_reversed(children) ==
    IF children = <<>> THEN <<>>
    ELSE flat_children(Tail(children)) \o filters_to_flat(Head(children))

\* for i in filters: yield from recursive_generator(i)
flat_children(children) ==
    IF children = <<>> THEN <<>>
    ELSE filters_to_flat(Head(children)) \o flat_children(Tail(children))

\* Every dictionary of three keys met on the way down is yielded; the values of
\* a condition (strings, numbers, tuples, lists of scalars) yield nothing.
filters_to_flat(filters) ==
    IF filters = <<>> THEN <<>>
    ELSE IF is_field(filters) THEN <<filters>>
    ELSE flat_children(filters[logic_op(filters)])

field_function_to_sql(field_function, use_as) ==
    LET func_name == field_function[1]
        arg_name == field_function[2]
        field_name == field_function[3]
        suffix == IF use_as
                  THEN " AS '" \o func_name \o "." \o arg_name \o "." \o field_name \o "'"
                  ELSE ""
    IN  IF field_name # ""
        THEN BQ \o func_name \o "_" \o arg_name \o BQ \o "." \o BQ \o field_name \o BQ \o suffix
        ELSE BQ \o func_name \o "_" \o arg_name \o BQ \o suffix

set_function_to_sql(field_function) ==
    "(SELECT value FROM sets WHERE name = '" \o field_function[2] \o "')"

\* field is PyStr or PyTuple; tables maps a field name to its table
fields_to_sql(field, tables, use_as) ==
    IF IsTuple(field) THEN field_function_to_sql(field.tuple, use_as)
    ELSE
        LET f == field.str
            n == WordPrefixLen(f)
            rest == SubSeq(f, n + 2, Len(f))
            m == WordPrefixLen(rest)
            match == n > 0 /\ Len(f) > n /\ SubSeq(f, n + 1, n + 1) = "." /\ m > 0
        IN  IF match
            THEN BQ \o SubSeq(f, 1, n) \o BQ \o "." \o BQ \o SubSeq(rest, 1, m) \o BQ
            ELSE IF f \in DOMAIN tables
                 THEN BQ \o tables[f] \o BQ \o "." \o BQ \o f \o BQ
                 ELSE BQ \o f \o BQ

\* repr of a list or a tuple of strings, as str() and the % operator give it
QuoteAll(strs) == [i \in DOMAIN strs |-> "'" \o strs[i] \o "'"]
ReprList(l) == "[" \o JoinStr(", ", QuoteAll(l)) \o "]"
ReprTuple(t) ==
    IF Len(t) = 1 THEN "(" \o "'" \o t[1] \o "'" \o ",)"
    ELSE "(" \o JoinStr(", ", QuoteAll(t)) \o ")"

\* The SQL fragment of one condition (the is_field branch of recursive).
condition_to_sql(node, tables) ==
    LET value0 == node.value
        operator0 == Upper(node.operator)
        \* quote string; a set(...) tuple becomes a sub-query: both are str now
        is_str == IsStr(value0)
                  \/ (IsTuple(value0) /\ value0.tuple[1] = SET_FUNC_NAME)
        text1 == IF IsStr(value0) THEN "'" \o value0.str \o "'"
                 ELSE IF IsTuple(value0) /\ value0.tuple[1] = SET_FUNC_NAME
                      THEN set_function_to_sql(value0.tuple)
                 ELSE ""
        operator1 == IF operator0 = "~" THEN "REGEXP" ELSE operator0
        operator == IF operator1 = "HAS" THEN "LIKE" ELSE operator1
        \* HAS: both quote characters become %, the quotes added above too
        text2 == IF operator1 = "HAS"
                 THEN "'" \o Translate(text1, "'\"", "%") \o "'"
                 ELSE text1
        field == fields_to_sql(node.field, tables, FALSE)
        value == IF is_str THEN text2
                 ELSE IF IsInt(value0) THEN ToString(value0.int)
                 ELSE IF IsList(value0)
                      THEN IF operator \in {"IN", "NOT IN"}
                           THEN ReprList(value0.list)
                           ELSE "(" \o JoinStr(",", value0.list) \o ")"
                 ELSE ReprTuple(value0.tuple)
    IN  field \o " " \o operator \o " " \o value

RECURSIVE filters_to_sql(_, _)
RECURSIVE children_to_sql(_, _)
children_to_sql(children, tables) ==
    IF children = <<>> THEN <<>>
    ELSE <<filters_to_sql(Head(children), tables)>>
         \o children_to_sql(Tail(children), tables)

\* faulty variant of filters_to_sql: every logic node is in parentheses
filters_to_sql_always_parenthesized(node, tables) ==
    IF node = <<>> THEN ""
    ELSE IF is_field(node) THEN condition_to_sql(node, tables)
    ELSE LET op == logic_op(node)
         IN  "(" \o JoinStr(" " \o op \o " ", children_to_sql(node[op], tables)) \o ")"

filters_to_sql(node, tables) ==
    IF node = <<>> THEN ""
    ELSE IF is_field(node) THEN condition_to_sql(node, tables)
    ELSE LET op == logic_op(node)
             out == children_to_sql(node[op], tables)
         IN  IF Len(out) = 1 THEN out[1]
             ELSE "(" \o JoinStr(" " \o op \o " ", out) \o ")"

\* filters_to_vql: a condition is field operator value as the % operator
\* prints them, with a str value in quotes; a logic node is always in
\* parentheses
RECURSIVE filters_to_vql(_)
filters_to_vql(node) ==
    LET PyToStr(v) == IF IsStr(v) THEN v.str
                      ELSE IF IsInt(v) THEN ToString(v.int)
                      ELSE IF IsList(v) THEN ReprList(v.list)
                      ELSE ReprTuple(v.tuple)
    IN
    IF node = <<>> THEN ""
    ELSE IF is_field(node)
    THEN PyToStr(node.field) \o " " \o node.operator \o " "
         \o (IF IsStr(node.value) THEN "'" \o node.value.str \o "'"
             ELSE PyToStr(node.value))
    ELSE LET op == logic_op(node)
             children == node[op]
         IN  "(" \o JoinStr(" " \o op \o " ",
                            [i \in DOMAIN children |-> filters_to_vql(children[i])])
             \o ")"

\* "id" not in col: a substring test on a str, an element test on a tuple
id_in_col(col) ==
    IF IsTuple(col) THEN \E i \in DOMAIN col.tuple : col.tuple[i] = "id"
    ELSE Contains(col.str, "id")

\* the keyword parameters build_query declares (it takes no **kwargs)
build_query_params ==
    { "fields", "source", "filters", "order_by", "order_desc", "limit", "offset",
      "group_by", "default_tables", "samples_ids" }

\* faulty variant of build_query_sql_fields: the count column is appended
build_query_sql_fields_count_last(fields, group_by, tables) ==
    LET kept == SelectSeq(fields, LAMBDA col : ~id_in_col(col))
        fields0 == << BQ \o "variants" \o BQ \o "." \o BQ \o "id" \o BQ >>
                   \o [i \in DOMAIN kept |-> fields_to_sql(kept[i], tables, TRUE)]
    IN  IF group_by # <<>>
        THEN fields0 \o << "COUNT(" \o fields0[1] \o ") as 'count'" >>
        ELSE fields0

\* sql_fields: the identifier column, the fields kept by the "id" test, and
\* with a group_by the count column inserted at index 1
build_query_sql_fields(fields, group_by, tables) ==
    LET kept == SelectSeq(fields, LAMBDA col : ~id_in_col(col))
        fields0 == << BQ \o "variants" \o BQ \o "." \o BQ \o "id" \o BQ >>
                   \o [i \in DOMAIN kept |-> fields_to_sql(kept[i], tables, TRUE)]
    IN  IF group_by # <<>>
        THEN << fields0[1], "COUNT(" \o fields0[1] \o ") as 'count'" >> \o Tail(fields0)
        ELSE fields0

\* fields_in_filters: the fields of the flattened conditions, as SQL text
build_query_fields_in_filters(filters, tables) ==
    LET flat == filters_to_flat(filters)
    IN  [i \in DOMAIN flat |-> fields_to_sql(flat[i].field, tables, FALSE)]

\* need_join_annotations: "annotations" in col, for col in sql_fields +
\* fields_in_filters (each col is SQL text)
build_query_need_join_annotations(cols) ==
    \E i \in DOMAIN cols : Contains(cols[i], "annotations")

\* samples: the second element of every tuple of all_fields that starts with
\* GENOTYPE_FUNC_NAME; all_fields is fields_in_filters (SQL text, so str) + fields
build_query_samples(fields_in_filters, fields) ==
    LET all_fields == [i \in DOMAIN fields_in_filters |-> PyStr(fields_in_filters[i])]
                      \o fields
        genotype_cols ==
            SelectSeq(all_fields,
                      LAMBDA col : IsTuple(col) /\ col.tuple[1] = GENOTYPE_FUNC_NAME)
    IN  [i \in DOMAIN genotype_cols |-> genotype_cols[i].tuple[2]]

\* the INNER JOIN of one sample
sample_join(sample_name, sample_id) ==
    LET alias == BQ \o GENOTYPE_FUNC_NAME \o "_" \o sample_name \o BQ
    IN  " INNER JOIN sample_has_variant " \o alias \o " ON " \o alias
        \o ".variant_id = variants.id AND " \o alias \o ".sample_id = "
        \o ToString(sample_id)

\* faulty variant of build_query_where: the tree is rendered without a look
\* at what it holds
build_query_where_always(filters, tables) ==
    " WHERE " \o filters_to_sql(filters, tables)

\* the text of the WHERE clause, "" when there is none
build_query_where(filters, tables) ==
    IF filters # <<>>
    THEN LET where_clause == filters_to_sql(filters, tables)
         IN  IF where_clause # "" /\ where_clause # "()"
             THEN " WHERE " \o where_clause ELSE ""
    ELSE ""

\* faulty variant of build_query_limit: the offset alone brings the clause
build_query_limit_on_offset(limit, offset) ==
    IF offset # <<>>
    THEN " LIMIT " \o (IF limit = <<>> THEN "None" ELSE ToString(limit[1]))
         \o " OFFSET " \o ToString(offset[1])
    ELSE ""

\* the text of LIMIT and OFFSET, "" when limit is None or 0; the f-string
\* prints a None offset as None
build_query_limit(limit, offset) ==
    IF limit # <<>> /\ limit # <<0>>
    THEN " LIMIT " \o ToString(limit[1]) \o " OFFSET "
         \o (IF offset = <<>> THEN "None" ELSE ToString(offset[1]))
    ELSE ""

\* The compiled SELECT: sql is the text build_query returns, the other fields
\* are its clauses, kept for the evaluation of the query.
\* order_by is <<>> (None) or a field; limit and offset are optional integers.
build_query(fields, source, filters, order_by, order_desc, limit, offset, group_by, tables, samples) ==
    LET sql_fields == build_query_sql_fields(fields, group_by, tables)
        fields_in_filters == build_query_fields_in_filters(filters, tables)
        need_join_annotations ==
            build_query_need_join_annotations(sql_fields \o fields_in_filters)
        sample_names == build_query_samples(fields_in_filters, fields)
        joined == SelectSeq(sample_names, LAMBDA n : n \in DOMAIN samples)
        where == build_query_where(filters, tables)
        order == IF order_by # <<>> /\ order_by # PyStr("")
                 THEN " ORDER BY " \o fields_to_sql(order_by, tables, FALSE)
                      \o (IF order_desc THEN " DESC" ELSE " ASC")
                 ELSE ""
        page == build_query_limit(limit, offset)
    IN  [ sql |-> "SELECT " \o JoinStr(",", sql_fields) \o " " \o "FROM variants"
                  \o (IF need_join_annotations
                      THEN " LEFT JOIN annotations ON annotations.variant_id = variants.id"
                      ELSE "")
                  \o (IF source # "variants"
                      THEN " INNER JOIN selection_has_variant sv ON sv.variant_id = variants.id "
                           \o "INNER JOIN selections s ON s.id = sv.selection_id AND s.name = '"
                           \o source \o "'"
                      ELSE "")
                  \o JoinStr("", [i \in DOMAIN joined |-> sample_join(joined[i], samples[joined[i]])])
                  \o where
                  \o (IF group_by # <<>> THEN " GROUP BY " \o JoinStr(",", group_by) ELSE "")
                  \o order
                  \o page,
          select |-> sql_fields,
          join_annotations |-> need_join_annotations,
          source |-> source,
          join_samples |-> joined,
          where |-> where,
          filters |-> IF where # "" THEN filters ELSE <<>>,
          group_by |-> group_by,
          order_by |-> order,
          limit |-> IF page # "" THEN limit ELSE <<>>,
          offset |-> IF page # "" THEN offset ELSE <<>> ]

---------------------------------------------------------------------------
(* The parser of the language (cutevariant.core.vql), for the COUNT         *)
(* statement: COUNT FROM source [WHERE expression].  An expression is a     *)
(* run of terms joined by one logic operator; a term is a condition or an   *)
(* expression in parentheses.  A parser takes the text and a position and   *)
(* gives the node it read and the position after it, or fails.              *)

\* a local of the parser: the value an expression has, computed once
The(S) == CHOOSE x \in S : TRUE

ParseFail == [ok |-> FALSE]
Parsed(pos, node) == [ok |-> TRUE, pos |-> pos, node |-> node]

\* the text t stands at position i of s
At(s, i, t) == i >= 1 /\ i + Len(t) - 1 <= Len(s) /\ SubSeq(s, i, i + Len(t) - 1) = t

\* the position of the first character that is not a space, from i on
RECURSIVE SkipSpaces(_, _)
SkipSpaces(s, i) == IF At(s, i, " ") THEN SkipSpaces(s, i + 1) ELSE i

\* the number of word characters that stand at position i
WordLen(s, i) == IF i > Len(s) THEN 0 ELSE WordPrefixLen(SubSeq(s, i, Len(s)))

\* the keyword k stands at position i and no word character follows it
AtKeyword(s, i, k) == At(s, i, k) /\ WordLen(s, i + Len(k)) = 0

\* the position of the next t from i on, 0 when there is none
Find(s, i, t) ==
    LET places == {j \in i..Len(s) : At(s, j, t)}
    IN  IF places = {} THEN 0 ELSE CHOOSE j \in places : \A k \in places : j <= k

\* the number a run of digits writes
RECURSIVE ToNat(_)
ToNat(digits) ==
    IF digits = "" THEN 0
    ELSE LET last == SubSeq(digits, Len(digits), Len(digits))
         IN  10 * ToNat(SubSeq(digits, 1, Len(digits) - 1))
             + (CHOOSE d \in 0..9 : ToString(d) = last)

\* a string in single quotes
parse_string(s, i) ==
    LET close == Find(s, i + 1, "'")
    IN  IF At(s, i, "'") /\ close # 0
        THEN Parsed(close + 1, SubSeq(s, i + 1, close - 1))
        ELSE ParseFail

\* strings separated by commas, up to the closing parenthesis
RECURSIVE parse_strings(_, _, _)
parse_strings(s, i, read) ==
    The({ IF ~item.ok THEN ParseFail
          ELSE The({ IF At(s, next, ",")
                     THEN parse_strings(s, next + 1, Append(read, item.node))
                     ELSE IF At(s, next, ")")
                     THEN Parsed(next + 1, PyTuple(Append(read, item.node)))
                     ELSE ParseFail
                     : next \in {SkipSpaces(s, item.pos)} })
          : item \in {parse_string(s, SkipSpaces(s, i))} })

\* a value: a number, a string, a list of strings in parentheses
parse_value(s, i) ==
    The({ LET digits == Len(SelectSeq([k \in 1..n |-> SubSeq(s, i + k - 1, i + k - 1)],
                                      LAMBDA c : Contains("0123456789", c)))
          IN  IF n > 0
              THEN IF digits = n
                   THEN Parsed(i + n, PyInt(ToNat(SubSeq(s, i, i + n - 1))))
                   ELSE ParseFail
              ELSE IF At(s, i, "'")
              THEN The({ IF str.ok THEN Parsed(str.pos, PyStr(str.node)) ELSE ParseFail
                         : str \in {parse_string(s, i)} })
              ELSE IF At(s, i, "(") THEN parse_strings(s, i + 1, <<>>)
              ELSE ParseFail
          : n \in {WordLen(s, i)} })

\* a field: name, table.name, or sample["name"] with the field gt unless
\* .field follows
parse_field(s, i) ==
    LET open == GENOTYPE_FUNC_NAME \o "[\""
        close == Find(s, i + Len(open), "\"]")
        n == WordLen(s, i)
    IN  IF At(s, i, open)
        THEN IF close = 0 THEN ParseFail
             ELSE LET name == SubSeq(s, i + Len(open), close - 1)
                      after == close + 2
                      m == WordLen(s, after + 1)
                  IN  IF At(s, after, ".") /\ m > 0
                      THEN Parsed(after + 1 + m,
                                  PyTuple(<<GENOTYPE_FUNC_NAME, name,
                                            SubSeq(s, after + 1, after + m)>>))
                      ELSE Parsed(after, PyTuple(<<GENOTYPE_FUNC_NAME, name, "gt">>))
        ELSE IF n = 0 THEN ParseFail
        ELSE LET m == WordLen(s, i + n + 1)
             IN  IF At(s, i + n, ".") /\ m > 0
                 THEN Parsed(i + n + 1 + m, PyStr(SubSeq(s, i, i + n + m)))
                 ELSE Parsed(i + n, PyStr(SubSeq(s, i, i + n - 1)))

\* a condition: field operator value, the operator being the longest
\* comparison operator that stands there
parse_condition(s, i) ==
    LET parse_operator(j) ==
            LET found == {o \in {"!=", "<=", ">=", "=", "<", ">", "~"} : At(s, j, o)}
                         \cup {o \in {"NOT IN", "IN", "HAS"} : AtKeyword(s, j, o)}
                longest == CHOOSE o \in found : \A x \in found : Len(x) <= Len(o)
            IN  IF found = {} THEN ParseFail ELSE Parsed(j + Len(longest), longest)
    IN  The({ IF ~field.ok THEN ParseFail
              ELSE The({ IF ~operator.ok THEN ParseFail
                         ELSE The({ IF ~value.ok THEN ParseFail
                                    ELSE Parsed(value.pos,
                                                [field |-> field.node,
                                                 operator |-> operator.node,
                                                 value |-> value.node])
                                    : value \in {parse_value(s, SkipSpaces(s, operator.pos))} })
                         : operator \in {parse_operator(SkipSpaces(s, field.pos))} })
              : field \in {parse_field(s, SkipSpaces(s, i))} })

RECURSIVE parse_expression(_, _)
RECURSIVE parse_run(_, _, _, _)

\* faulty variant of parse_term: an expression in parentheses gives its
\* first term only
parse_term_first_of_group(s, i0) ==
    The({ IF At(s, i, "(")
          THEN The({ LET terms == IF "AND" \in DOMAIN inner.node
                                  THEN inner.node.AND ELSE inner.node.OR
                     IN  IF inner.ok /\ At(s, SkipSpaces(s, inner.pos), ")")
                         THEN Parsed(SkipSpaces(s, inner.pos) + 1, terms[1])
                         ELSE ParseFail
                     : inner \in {parse_expression(s, i + 1)} })
          ELSE parse_condition(s, i)
          : i \in {SkipSpaces(s, i0)} })

\* a term: an expression in parentheses, which gives the node of that
\* expression, or a condition
parse_term(s, i0) ==
    The({ IF At(s, i, "(")
          THEN The({ IF inner.ok /\ At(s, SkipSpaces(s, inner.pos), ")")
                     THEN Parsed(SkipSpaces(s, inner.pos) + 1, inner.node)
                     ELSE ParseFail
                     : inner \in {parse_expression(s, i + 1)} })
          ELSE parse_condition(s, i)
          : i \in {SkipSpaces(s, i0)} })

\* the rest of a run after the terms read so far: the run ends as one logic
\* node over its terms in source order, AND when no operator was written;
\* two operators mixed without parentheses are a syntax error
parse_run(s, i0, op, children) ==
    The({ LET next == IF AtKeyword(s, i, "AND") THEN "AND"
                      ELSE IF AtKeyword(s, i, "OR") THEN "OR" ELSE ""
          IN  IF next = ""
              THEN Parsed(i, IF op = "OR" THEN [OR |-> children] ELSE [AND |-> children])
              ELSE IF op # "" /\ op # next THEN ParseFail
              ELSE The({ IF ~term.ok THEN ParseFail
                         ELSE The({ parse_run(s, term.pos, next, terms)
                                    : terms \in {Append(children, term.node)} })
                         : term \in {parse_term(s, i + Len(next))} })
          : i \in {SkipSpaces(s, i0)} })

parse_expression(s, i) ==
    The({ IF first.ok THEN parse_run(s, first.pos, "", <<first.node>>) ELSE ParseFail
          : first \in {parse_term(s, i)} })

\* COUNT FROM source [WHERE expression]: the statement, or a syntax error
parse_vql(source) ==
    LET head == "COUNT FROM "
        ParseError == [raised |-> "VQLSyntaxError", why |-> "syntax"]
    IN  The({ LET after == SkipSpaces(source, Len(head) + 1 + n)
                  statement(filters) ==
                      [cmd |-> "count_cmd",
                       source |-> SubSeq(source, Len(head) + 1, Len(head) + n),
                       filters |-> filters]
              IN  IF ~At(source, 1, head) \/ n = 0 THEN ParseError
                  ELSE IF after > Len(source) THEN statement(EmptyDict)
                  ELSE IF ~AtKeyword(source, after, "WHERE") THEN ParseError
                  ELSE The({ IF where.ok /\ SkipSpaces(source, where.pos) > Len(source)
                             THEN statement(where.node)
                             ELSE ParseError
                             : where \in {parse_expression(source, after + Len("WHERE"))} })
              : n \in {WordLen(source, Len(head) + 1)} })

---------------------------------------------------------------------------
(* The storage layer (cutevariant.core.sql) and sqlite, as far as the       *)
(* commands use them.  A database is a record                               *)
(*   selections: rows [id, name, count]                                     *)
(*   shv:        rows [variant_id, selection_id] of selection_has_variant   *)
(*   sets:       rows [name, value]                                         *)
(*   index:      whether idx_selection_has_variant exists                   *)
(***************************************************************************)

EmptyDb == [selections |-> {}, shv |-> {}, sets |-> {}, index |-> TRUE]

\* the annotation rows a variant joins with; 0 is the NULL row of the LEFT JOIN
AnnotationRows(v) == IF NumAnnotations(v) = 0 THEN {0} ELSE 1..NumAnnotations(v)

\* the WHERE clause on the joined row (variant v, annotation row k)
RECURSIVE EvalFilter(_, _, _)
EvalFilter(node, v, k) ==
    IF node = <<>> THEN TRUE
    ELSE IF is_field(node)
    THEN LET f == node.field.str
             holds == IF f = "a" THEN VariantA(v) = node.value.int
                      ELSE IF f = "impact"
                           THEN k # 0 /\ AnnotationImpact(v, k) = node.value.str
                           ELSE FALSE
         IN  IF node.operator = "=" THEN holds
             ELSE IF node.operator = "!=" THEN (f = "impact" => k # 0) /\ ~holds
             ELSE FALSE
    ELSE LET op == logic_op(node)
             children == node[op]
         IN  IF op = "AND"
             THEN \A i \in DOMAIN children : EvalFilter(children[i], v, k)
             ELSE \E i \in DOMAIN children : EvalFilter(children[i], v, k)

MaxAnnotations == Max({NumAnnotations(v) : v \in Variants})

\* The rows of a compiled SELECT: one per combination of a variant, an
\* annotation row of it (when joined) and a selection row named source that
\* holds it (when source is not variants).  Every variant has a genotype row
\* for every sample, so the sample joins keep every row.
SelectRows(q, d) ==
    { r \in [id : Variants, ann : 0..MaxAnnotations, sel : {0} \cup {s.id : s \in d.selections}] :
        /\ IF q.join_annotations THEN r.ann \in AnnotationRows(r.id) ELSE r.ann = 0
        /\ IF q.source # "variants"
           THEN /\ \E s \in d.selections : s.id = r.sel /\ s.name = q.source
                /\ [variant_id |-> r.id, selection_id |-> r.sel] \in d.shv
           ELSE r.sel = 0
        /\ EvalFilter(q.filters, r.id, r.ann) }

Ids(rows) == {r.id : r \in rows}
IdRows(ids) == {[id |-> v, ann |-> 0, sel |-> 0] : v \in ids}

\* sql.union_variants, sql.subtract_variants, sql.intersect_variants
union_variants(q1, q2) == [op |-> "UNION", left |-> q1, right |-> q2]
subtract_variants(q1, q2) == [op |-> "EXCEPT", left |-> q1, right |-> q2]
intersect_variants(q1, q2) == [op |-> "INTERSECT", left |-> q1, right |-> q2]

\* the rows a query gives when executed on database d
Rows(q, d) ==
    IF "op" \in DOMAIN q
    THEN LET l == Ids(SelectRows(q.left, d))
             r == Ids(SelectRows(q.right, d))
         IN  IdRows(IF q.op = "UNION" THEN l \cup r
                    ELSE IF q.op = "EXCEPT" THEN l \ r
                    ELSE l \cap r)
    ELSE SelectRows(q, d)

\* sql.count_query: SELECT COUNT(*) FROM (query)
count_query(d, q) == Cardinality(Rows(q, d))

\* a set of joined rows as a list, in (id, ann, sel) order
RECURSIVE SortRows(_)
SortRows(S) ==
    IF S = {} THEN <<>>
    ELSE LET key(r) == (r.id * (MaxAnnotations + 1) + r.ann) * (MaxSelections + 2) + r.sel
             first == CHOOSE x \in S : \A y \in S : key(x) <= key(y)
         IN  <<first>> \o SortRows(S \ {first})

\* conn.execute(query): the rows in table order, cut by LIMIT and OFFSET
execute_select(d, q) ==
    LET all == SortRows(Rows(q, d))
    IN  IF q.limit = <<>> THEN all
        ELSE LET from == (IF q.offset = <<>> THEN 0 ELSE q.offset[1]) + 1
                 to == IF from + q.limit[1] - 1 < Len(all)
                       THEN from + q.limit[1] - 1 ELSE Len(all)
             IN  SubSeq(all, from, to)

\* the rowid sqlite gives a new selections row
new_selection_id(d) == Max({0} \cup {s.id : s \in d.selections}) + 1

\* sql.insert_selection
insert_selection(d, name, count) ==
    [d EXCEPT !.selections =
        @ \cup {[id |-> new_selection_id(d), name |-> name, count |-> count]}]

\* INSERT INTO selection_has_variant SELECT DISTINCT id, selection_id FROM (query)
insert_selection_has_variant(d, q, selection_id) ==
    [d EXCEPT !.shv =
        @ \cup {[variant_id |-> v, selection_id |-> selection_id] : v \in Ids(Rows(q, d))}]

\* selection_has_variant.selection_id references selections(id) ON DELETE
\* CASCADE: the membership rows of deleted selections go with them
on_delete_cascade(d, gone) ==
    [d EXCEPT !.shv = {m \in @ : \A s \in gone : m.selection_id # s.id}]

\* faulty variant of delete_selections: the statement deletes nothing
delete_selections_nothing(d, name) == d

\* DELETE FROM selections WHERE name = '{name}'
delete_selections(d, name) ==
    LET gone == {s \in d.selections : s.name = name}
    IN  on_delete_cascade([d EXCEPT !.selections = @ \ gone], gone)

\* DELETE FROM sets WHERE name = ...
delete_sets(d, name) == [d EXCEPT !.sets = {r \in @ : r.name # name}]

---------------------------------------------------------------------------
(* core/command.py *)

\* no result yet
NoResult == [pending |-> TRUE]
Raised(exception, why) == [raised |-> exception, why |-> why]
IsRaised(r) == "raised" \in DOMAIN r

NoLocal == [sql_query |-> Unbound, count |-> 0, selection_id |-> 0, pending |-> <<>>]

\* a caller may start a command when it is not inside the body of one
Ready(w) == pc[w] \in {"idle", "done", "raised", "gen_new", "gen_run"}

\* the caller calls a command: a new frame
Call(w, c) ==
    /\ Ready(w)
    /\ call' = [call EXCEPT ![w] = c]

\* the handler returns value; its local variables are gone
Return(w, value, steps) ==
    /\ pc' = [pc EXCEPT ![w] = "done"]
    /\ result' = [result EXCEPT ![w] = value]
    /\ local' = [local EXCEPT ![w] = NoLocal]
    /\ trace' = [trace EXCEPT ![w] = steps]

\* the handler raises; its local variables are gone
Raise(w, exception, why, steps) ==
    /\ pc' = [pc EXCEPT ![w] = "raised"]
    /\ result' = [result EXCEPT ![w] = Raised(exception, why)]
    /\ local' = [local EXCEPT ![w] = NoLocal]
    /\ trace' = [trace EXCEPT ![w] = steps]

\* the handler goes on to the step at label with its locals
Goto(w, label, locals, steps) ==
    /\ pc' = [pc EXCEPT ![w] = label]
    /\ local' = [local EXCEPT ![w] = locals]
    /\ trace' = [trace EXCEPT ![w] = steps]
    /\ result' = [result EXCEPT ![w] = NoResult]

\* faulty variant of create_cmd_null_target: a null target is an error
create_cmd_null_target_raises(w) ==
    Raise(w, "VQLSyntaxError", "target", <<"get_fields", "get_samples">>)

\* if target is None: return {}
create_cmd_null_target(w) == Return(w, EmptyDict, <<"get_fields", "get_samples">>)

\* create_cmd, up to cursor = conn.cursor() and the compiled id-only query
create_cmd(w, target, source, filters) ==
    /\ Call(w, [cmd |-> "create_cmd", target |-> target, source |-> source,
                filters |-> filters])
    /\ IF target = None
       THEN create_cmd_null_target(w)
       ELSE /\ new_selection_id(db) <= MaxSelections
            /\ Goto(w, "count_query",
                    [NoLocal EXCEPT !.sql_query =
                        build_query(<<PyStr("id")>>, source, filters, <<>>, TRUE,
                                    NoneInt, SomeInt(0), <<>>, default_tables,
                                    samples_ids)],
                    <<"get_fields", "get_samples">>)
    /\ UNCHANGED <<db, committed, cache, faults>>

\* faulty variant of set_cmd_null_argument: the operator is not looked at
set_cmd_null_argument_but_operator(target, first, second, operator) ==
    target = None \/ first = None \/ second = None

\* if target is None or first is None or second is None or operator is None
set_cmd_null_argument(target, first, second, operator) ==
    target = None \/ first = None \/ second = None \/ operator = None

\* faulty variant of set_cmd_sql_query: an operator that is not "-" or "&" is
\* taken as the union
set_cmd_sql_query_else_union(operator, query_first, query_second) ==
    IF operator = "-" THEN subtract_variants(query_first, query_second)
    ELSE IF operator = "&" THEN intersect_variants(query_first, query_second)
    ELSE union_variants(query_first, query_second)

\* faulty variant of set_cmd_sql_query: "-" subtracts the first from the second
set_cmd_sql_query_reversed(operator, query_first, query_second) ==
    IF operator = "+" THEN union_variants(query_first, query_second)
    ELSE IF operator = "-" THEN subtract_variants(query_second, query_first)
    ELSE IF operator = "&" THEN intersect_variants(query_first, query_second)
    ELSE Unbound

\* the three ifs of set_cmd on operator: each that matches binds sql_query
\* (the operators exclude one another), none matching leaves it unbound
set_cmd_sql_query(operator, query_first, query_second) ==
    IF operator = "+" THEN union_variants(query_first, query_second)
    ELSE IF operator = "-" THEN subtract_variants(query_first, query_second)
    ELSE IF operator = "&" THEN intersect_variants(query_first, query_second)
    ELSE Unbound

\* set_cmd, up to the choice of the set operation
set_cmd(w, target, first, second, operator) ==
    /\ Call(w, [cmd |-> "set_cmd", target |-> target, first |-> first,
                second |-> second, operator |-> operator])
    /\ IF set_cmd_null_argument(target, first, second, operator)
       THEN Return(w, EmptyDict, <<>>)
       ELSE LET query_first == build_query(<<PyStr("id")>>, first, <<>>, <<>>, TRUE,
                                           NoneInt, SomeInt(0), <<>>, <<>>, <<>>)
                query_second == build_query(<<PyStr("id")>>, second, <<>>, <<>>, TRUE,
                                            NoneInt, SomeInt(0), <<>>, <<>>, <<>>)
                sql_query == set_cmd_sql_query(operator, query_first, query_second)
            IN  /\ new_selection_id(db) <= MaxSelections
                /\ Goto(w, "count_query", [NoLocal EXCEPT !.sql_query = sql_query], <<>>)
    /\ UNCHANGED <<db, committed, cache, faults>>

\* count = sql.count_query(conn, sql_query)
count_query_step(w) ==
    /\ pc[w] = "count_query"
    /\ IF local[w].sql_query = Unbound
       THEN Raise(w, "UnboundLocalError", "sql_query", trace[w])
       ELSE Goto(w, "insert_selection",
                 [local[w] EXCEPT !.count = count_query(db, local[w].sql_query)],
                 trace[w] \o <<"count_query">>)
    /\ UNCHANGED <<db, committed, cache, call, faults>>

\* faulty variant of insert_selection_step: the insert of the row is committed
\* at once
insert_selection_step_commits(w) ==
    /\ pc[w] = "insert_selection"
    /\ new_selection_id(db) <= MaxSelections
    /\ db' = insert_selection(db, call[w].target, local[w].count)
    /\ committed' = db'
    /\ Goto(w, "drop_index", [local[w] EXCEPT !.selection_id = new_selection_id(db)],
            trace[w] \o <<"insert_selection">>)
    /\ UNCHANGED <<cache, call, faults>>

\* selection_id = sql.insert_selection(cursor, sql_query, name=target, count=count)
insert_selection_step(w) ==
    /\ pc[w] = "insert_selection"
    /\ new_selection_id(db) <= MaxSelections
    /\ db' = insert_selection(db, call[w].target, local[w].count)
    /\ Goto(w, "drop_index", [local[w] EXCEPT !.selection_id = new_selection_id(db)],
            trace[w] \o <<"insert_selection">>)
    /\ UNCHANGED <<committed, cache, call, faults>>

\* faulty variant of drop_index_step: the failure of DROP INDEX is not caught
drop_index_step_raises(w) ==
    /\ pc[w] = "drop_index"
    /\ IF db.index
       THEN /\ db' = [db EXCEPT !.index = FALSE]
            /\ Goto(w, "bulk_insert", local[w], trace[w] \o <<"drop_index">>)
       ELSE /\ db' = db
            /\ Raise(w, "sqlite3.OperationalError", "drop_index", trace[w])
    /\ UNCHANGED <<committed, cache, call, faults>>

\* try: cursor.execute("DROP INDEX idx_selection_has_variant")
\* except sqlite3.OperationalError: pass
drop_index_step(w) ==
    /\ pc[w] = "drop_index"
    /\ db' = [db EXCEPT !.index = FALSE]
    /\ Goto(w, "bulk_insert", local[w],
            trace[w] \o <<IF db.index THEN "drop_index" ELSE "drop_index_error_passed">>)
    /\ UNCHANGED <<committed, cache, call, faults>>

\* cursor.execute(q)
bulk_insert_step(w) ==
    /\ pc[w] = "bulk_insert"
    /\ db' = insert_selection_has_variant(db, local[w].sql_query, local[w].selection_id)
    /\ Goto(w, "create_index", local[w], trace[w] \o <<"bulk_insert">>)
    /\ UNCHANGED <<committed, cache, call, faults>>

\* faulty variant of create_index_step: the commit comes before the rebuild
create_index_step_after_commit(w) ==
    /\ pc[w] = "create_index"
    /\ committed' = db
    /\ db' = [db EXCEPT !.index = TRUE]
    /\ Goto(w, "commit", local[w], trace[w] \o <<"commit", "create_index">>)
    /\ UNCHANGED <<cache, call, faults>>

\* sql.create_selection_has_variant_indexes(cursor)
create_index_step(w) ==
    /\ pc[w] = "create_index"
    /\ db' = [db EXCEPT !.index = TRUE]
    /\ Goto(w, "commit", local[w], trace[w] \o <<"create_index">>)
    /\ UNCHANGED <<committed, cache, call, faults>>

\* faulty variant of sql_error: the handler commits what it did so far
sql_error_commits(w) ==
    /\ pc[w] \in {"count_query", "insert_selection", "bulk_insert", "create_index"}
    /\ local[w].sql_query # Unbound
    /\ faults < MaxFaults
    /\ faults' = faults + 1
    /\ committed' = db
    /\ Raise(w, "sqlite3.Error", pc[w], trace[w] \o <<"commit">>)
    /\ UNCHANGED <<db, cache, call>>

\* An SQL statement of create_cmd or set_cmd fails (count_query, the insert of
\* the selection row, the bulk insert, the index rebuild): neither handler
\* catches it, the error leaves the handler at that statement.
sql_error(w) ==
    /\ pc[w] \in {"count_query", "insert_selection", "bulk_insert", "create_index"}
    /\ local[w].sql_query # Unbound
    /\ faults < MaxFaults
    /\ faults' = faults + 1
    /\ Raise(w, "sqlite3.Error", pc[w], trace[w])
    /\ UNCHANGED <<db, committed, cache, call>>

\* conn.commit() and the return: cursor.rowcount is -1 after CREATE INDEX, so
\* the handler returns {"id": cursor.lastrowid}, whatever rowid the cursor
\* inserted last
commit_step(w) ==
    /\ pc[w] = "commit"
    /\ committed' = db
    /\ Return(w, [id |-> "cursor.lastrowid"], trace[w] \o <<"commit">>)
    /\ UNCHANGED <<db, cache, call, faults>>

\* accept_features of drop_cmd and import_cmd
drop_accept_features(feature) == feature \in {"selections", "sets"}
import_accept_features(feature) == feature \in {"sets"}

\* faulty variant of show_accept_features: every feature is accepted
show_accept_features_all(feature) == TRUE

\* accept_features of show_cmd
show_accept_features(feature) == feature \in {"selections", "fields", "samples", "sets"}

\* drop_cmd
drop_cmd(w, feature, name) ==
    /\ Call(w, [cmd |-> "drop_cmd", feature |-> feature, name |-> name])
    /\ UNCHANGED <<cache, faults>>
    /\ IF ~drop_accept_features(feature)
       THEN /\ Raise(w, "VQLSyntaxError", "feature", <<>>)
            /\ UNCHANGED <<db, committed>>
       ELSE /\ db' = IF feature = "selections" THEN delete_selections(db, name)
                     ELSE delete_sets(db, name)
            /\ committed' = db'
            /\ Return(w, [success |-> TRUE], <<"delete", "commit">>)

\* files on disk
ExistingPaths == {"words.txt", "regions.bed"}
FileWords == {"w1"}

\* sql.insert_set_from_file: one row per word of the file, committed
insert_set_from_file(d, name) ==
    [d EXCEPT !.sets = @ \cup {[name |-> name, value |-> x] : x \in FileWords}]

\* import_cmd
import_cmd(w, feature, name, path) ==
    /\ Call(w, [cmd |-> "import_cmd", feature |-> feature, name |-> name,
                path |-> path])
    /\ UNCHANGED <<cache, faults>>
    /\ IF ~import_accept_features(feature)
       THEN /\ Raise(w, "VQLSyntaxError", "feature", <<>>)
            /\ UNCHANGED <<db, committed>>
       ELSE IF path \in ExistingPaths
       THEN /\ db' = insert_set_from_file(db, name)
            /\ committed' = db'
            /\ Return(w, [success |-> TRUE], <<"insert_set_from_file", "commit">>)
       ELSE /\ Raise(w, "VQLSyntaxError", "path", <<>>)
            /\ UNCHANGED <<db, committed>>

\* the variants that lie in a region of the BED file
BedVariants == {v \in Variants : v <= 2}

\* sql.create_selection_from_bed: a selection named target of the variants of
\* source that lie in a region read from the file, committed
create_selection_from_bed(d, source, target) ==
    LET in_source == IF source = "variants" THEN Variants
                     ELSE {m.variant_id : m \in {x \in d.shv : \E s \in d.selections :
                                    s.name = source /\ s.id = x.selection_id}}
        ids == in_source \cap BedVariants
        selection_id == new_selection_id(d)
    IN  [insert_selection(d, target, Cardinality(ids)) EXCEPT !.shv =
            @ \cup {[variant_id |-> v, selection_id |-> selection_id] : v \in ids}]

\* faulty variant of bed_path_exists: the path is not looked at
bed_path_exists_always(path) == TRUE

\* os.path.exists(path) in bed_cmd
bed_path_exists(path) == path \in ExistingPaths

\* bed_cmd
bed_cmd(w, path, target, source) ==
    /\ Call(w, [cmd |-> "bed_cmd", path |-> path, target |-> target,
                source |-> source])
    /\ UNCHANGED <<cache, faults>>
    /\ IF ~bed_path_exists(path)
       THEN /\ Raise(w, "VQLSyntaxError", "path", <<>>)
            /\ UNCHANGED <<db, committed>>
       ELSE /\ new_selection_id(db) <= MaxSelections
            /\ db' = create_selection_from_bed(db, source, target)
            /\ committed' = db'
            /\ Return(w, [id |-> new_selection_id(db)],
                      <<"create_selection_from_bed", "commit">>)

\* a set of rows with distinct ids as a list, in id order
RECURSIVE SortById(_)
SortById(S) ==
    IF S = {} THEN <<>>
    ELSE LET first == CHOOSE x \in S : \A y \in S : x.id <= y.id
         IN  <<first>> \o SortById(S \ {first})

RECURSIVE SetToSeq(_)
SetToSeq(S) ==
    IF S = {} THEN <<>>
    ELSE LET x == CHOOSE y \in S : TRUE IN <<x>> \o SetToSeq(S \ {x})

\* sql.get_fields, sql.get_samples, sql.get_selections, sql.get_sets
get_fields == << [name |-> "a", category |-> "variants"],
                 [name |-> "impact", category |-> "annotations"] >>
get_samples == << [name |-> "sacha", id |-> 1] >>
get_selections(d) == SortById(d.selections)
get_sets(d) == SetToSeq({[name |-> r.name] : r \in d.sets})

\* calling a generator function runs none of its body
NewGenerator(w) ==
    /\ pc' = [pc EXCEPT ![w] = "gen_new"]
    /\ result' = [result EXCEPT ![w] = NoResult]
    /\ local' = [local EXCEPT ![w] = NoLocal]
    /\ trace' = [trace EXCEPT ![w] = <<>>]

\* next() on a generator that has these items still to yield
Yield(w, items, steps) ==
    IF items = <<>>
    THEN Raise(w, "StopIteration", "end", steps)
    ELSE /\ pc' = [pc EXCEPT ![w] = "gen_run"]
         /\ result' = [result EXCEPT ![w] = Head(items)]
         /\ local' = [local EXCEPT ![w] = [NoLocal EXCEPT !.pending = Tail(items)]]
         /\ trace' = [trace EXCEPT ![w] = steps]

\* show_cmd
show_cmd(w, feature) ==
    /\ Call(w, [cmd |-> "show_cmd", feature |-> feature])
    /\ NewGenerator(w)
    /\ UNCHANGED <<db, committed, cache, faults>>

\* next() on the generator of show_cmd
show_next(w) ==
    /\ pc[w] \in {"gen_new", "gen_run"}
    /\ call[w].cmd = "show_cmd"
    /\ UNCHANGED <<db, committed, cache, call, faults>>
    /\ IF pc[w] = "gen_run" THEN Yield(w, local[w].pending, trace[w])
       ELSE LET feature == call[w].feature
            IN  IF ~show_accept_features(feature)
                THEN Raise(w, "VQLSyntaxError", "feature", <<>>)
                ELSE IF feature = "fields" THEN Yield(w, get_fields, <<"get_fields">>)
                ELSE IF feature = "samples" THEN Yield(w, get_samples, <<"get_samples">>)
                ELSE IF feature = "selections"
                     THEN Yield(w, get_selections(db), <<"get_selections">>)
                ELSE Yield(w, get_sets(db), <<"get_sets">>)

\* the keyword arguments select_cmd and count_cmd give build_query
select_cmd_kwargs ==
    { "fields", "source", "filters", "order_by", "order_desc", "limit", "offset",
      "group_by", "having", "default_tables", "samples_ids" }
count_cmd_kwargs ==
    { "fields", "source", "filters", "limit", "offset", "order_desc", "order_by",
      "group_by", "having", "default_tables", "samples_ids" }

\* select_cmd
select_cmd(w, fields, source, filters, limit, offset) ==
    /\ Call(w, [cmd |-> "select_cmd", fields |-> fields, source |-> source,
                filters |-> filters, limit |-> limit, offset |-> offset])
    /\ NewGenerator(w)
    /\ UNCHANGED <<db, committed, cache, faults>>

\* next() on the generator of select_cmd
select_next(w) ==
    /\ pc[w] \in {"gen_new", "gen_run"}
    /\ call[w].cmd = "select_cmd"
    /\ UNCHANGED <<db, committed, cache, call, faults>>
    /\ IF pc[w] = "gen_run" THEN Yield(w, local[w].pending, trace[w])
       ELSE IF ~(select_cmd_kwargs \subseteq build_query_params)
       THEN Raise(w, "TypeError", "build_query() got an unexpected keyword argument",
                  <<"get_fields", "get_samples">>)
       ELSE LET c == call[w]
                query == build_query(c.fields, c.source, c.filters, <<>>, TRUE,
                                     c.limit, c.offset, <<>>, default_tables, samples_ids)
            IN  Yield(w, execute_select(db, query),
                      <<"get_fields", "get_samples", "execute">>)

\* @cached(max_size=128)
max_size == 128

\* count_cmd behind its memo: a call with arguments seen before returns the
\* value computed then; a call that raises stores nothing
count_cmd(w, fields, source, filters, group_by, having) ==
    LET key == [fields |-> fields, source |-> source, filters |-> filters,
                group_by |-> group_by, having |-> having]
        hits == {i \in DOMAIN cache : cache[i].key = key}
    IN  /\ Call(w, [cmd |-> "count_cmd", fields |-> fields, source |-> source,
                    filters |-> filters, group_by |-> group_by, having |-> having])
        /\ UNCHANGED <<db, committed, faults>>
        /\ IF hits # {}
           THEN LET i == CHOOSE j \in hits : TRUE
                IN  /\ cache' = SubSeq(cache, 1, i - 1) \o SubSeq(cache, i + 1, Len(cache))
                                 \o <<cache[i]>>
                    /\ Return(w, cache[i].value, <<>>)
           ELSE IF ~(count_cmd_kwargs \subseteq build_query_params)
           THEN /\ Raise(w, "TypeError",
                         "build_query() got an unexpected keyword argument",
                         <<"get_fields", "get_samples">>)
                /\ UNCHANGED cache
           ELSE LET query == build_query(fields, source, filters, <<>>, FALSE,
                                         NoneInt, NoneInt, group_by,
                                         default_tables, samples_ids)
                    value == [count |-> count_query(db, query)]
                    kept == IF Len(cache) < max_size THEN cache ELSE Tail(cache)
                IN  /\ cache' = kept \o <<[key |-> key, value |-> value]>>
                    /\ Return(w, value, <<"get_fields", "get_samples", "execute">>)

\* execute_all: the names its body assigns (the target of the for, cmd) are
\* its local variables from its first statement on; the iterable of the for,
\* vql.parse_vql(vql_source), reads the name vql before the for assigns it
execute_all_locals == {"vql", "cmd"}
execute_all_iterable == "vql"

\* execute_all, a generator function; vql_source is given as the statements
\* vql.parse_vql makes of it, here drop statements
execute_all(w, vql_source) ==
    /\ Call(w, [cmd |-> "execute_all", vql_source |-> vql_source])
    /\ NewGenerator(w)
    /\ UNCHANGED <<db, committed, cache, faults>>

\* next() on the generator of execute_all
execute_all_next(w) ==
    /\ pc[w] \in {"gen_new", "gen_run"}
    /\ call[w].cmd = "execute_all"
    /\ UNCHANGED <<cache, call, faults>>
    /\ IF execute_all_iterable \in execute_all_locals
       THEN /\ Raise(w, "UnboundLocalError", "vql", <<>>)
            /\ UNCHANGED <<db, committed>>
       ELSE LET left == IF pc[w] = "gen_new" THEN call[w].vql_source
                        ELSE local[w].pending
            IN  IF left = <<>>
                THEN /\ Raise(w, "StopIteration", "end", trace[w])
                     /\ UNCHANGED <<db, committed>>
                ELSE /\ db' = delete_selections(db, Head(left).name)
                     /\ committed' = db'
                     /\ pc' = [pc EXCEPT ![w] = "gen_run"]
                     /\ result' = [result EXCEPT ![w] = [success |-> TRUE]]
                     /\ local' = [local EXCEPT ![w] =
                                     [NoLocal EXCEPT !.pending = Tail(left)]]
                     /\ trace' = [trace EXCEPT ![w] = <<"delete", "commit">>]

---------------------------------------------------------------------------
(* The sequential specification: one caller runs one command after another *)

DefaultFields == <<PyStr("chr"), PyStr("pos"), PyStr("ref"), PyStr("alt")>>

Init ==
    /\ db = EmptyDb
    /\ committed = EmptyDb
    /\ cache = <<>>
    /\ pc = [w \in Workers |-> "idle"]
    /\ call = [w \in Workers |-> [cmd |-> "none"]]
    /\ local = [w \in Workers |-> NoLocal]
    /\ result = [w \in Workers |-> NoResult]
    /\ trace = [w \in Workers |-> <<>>]
    /\ faults = 0

FilterA == [AND |-> << [field |-> PyStr("a"), operator |-> "=", value |-> PyInt(3)] >>]
FilterImpact ==
    [AND |-> << [field |-> PyStr("impact"), operator |-> "=", value |-> PyStr("HIGH")] >>]

\* the inputs of create_cmd: a condition on variants, a condition on
\* annotations (several rows per variant), another selection as the source,
\* a null target
CreateInputs ==
    { [target |-> "A", source |-> "variants", filters |-> FilterA],
      [target |-> "B", source |-> "variants", filters |-> FilterImpact],
      [target |-> "B", source |-> "A", filters |-> <<>>],
      [target |-> None, source |-> "variants", filters |-> <<>>] }

\* the inputs of set_cmd: the three operations, an unknown one, and a null in
\* each argument
SetInputs ==
    { [target |-> "C", first |-> "A", second |-> "B", operator |-> o] :
        o \in {"+", "-", "&", "|"} }
    \cup { [target |-> None, first |-> "A", second |-> "B", operator |-> "+"],
           [target |-> "B", first |-> None, second |-> "B", operator |-> "+"],
           [target |-> "B", first |-> "A", second |-> None, operator |-> "+"],
           [target |-> "B", first |-> "A", second |-> "B", operator |-> None] }

QueryInputs == { <<"variants", <<>> >>, <<"A", FilterA>> }

\* the inputs of execute_all: one statement, two statements
DropStatement(name) == [cmd |-> "drop_cmd", feature |-> "selections", name |-> name]
SourceInputs == { <<DropStatement("A")>>, <<DropStatement("A"), DropStatement("B")>> }

Step(w) ==
    \/ \E c \in CreateInputs : create_cmd(w, c.target, c.source, c.filters)
    \/ \E c \in SetInputs : set_cmd(w, c.target, c.first, c.second, c.operator)
    \/ count_query_step(w)
    \/ insert_selection_step(w)
    \/ drop_index_step(w)
    \/ bulk_insert_step(w)
    \/ create_index_step(w)
    \/ commit_step(w)
    \/ \E feature \in {"selections", "sets", "fields"}, name \in SelectionNames :
            drop_cmd(w, feature, name)
    \/ \E feature \in {"sets", "selections"}, path \in {"words.txt", "missing.txt"} :
            import_cmd(w, feature, "A", path)
    \/ \E feature \in {"selections", "fields", "samples", "sets", "variants"} :
            show_cmd(w, feature)
    \/ show_next(w)
    \/ \E q \in QueryInputs :
            select_cmd(w, DefaultFields, q[1], q[2], SomeInt(1), SomeInt(0))
    \/ select_next(w)
    \/ \E q \in QueryInputs : count_cmd(w, DefaultFields, q[1], q[2], <<>>, <<>>)
    \/ \E vql_source \in SourceInputs : execute_all(w, vql_source)
    \/ execute_all_next(w)

Next == Step(MainWorker)

Spec == Init /\ [][Next]_vars

---------------------------------------------------------------------------
(* The sequential specification with failing SQL statements: the commands   *)
(* that write, and statements of create_cmd and set_cmd that fail           *)

WriteStep(w) ==
    \/ \E c \in CreateInputs : create_cmd(w, c.target, c.source, c.filters)
    \/ \E c \in SetInputs : set_cmd(w, c.target, c.first, c.second, c.operator)
    \/ count_query_step(w)
    \/ insert_selection_step(w)
    \/ drop_index_step(w)
    \/ bulk_insert_step(w)
    \/ create_index_step(w)
    \/ commit_step(w)
    \/ sql_error(w)
    \/ \E name \in SelectionNames : drop_cmd(w, "selections", name)

NextFaults == WriteStep(MainWorker)

SpecFaults == Init /\ [][NextFaults]_vars

---------------------------------------------------------------------------
(* Callers that share the connection with no lock: each runs create_cmd and *)
(* set_cmd, and the statements of the handlers interleave                   *)

InterleavedStep(w) ==
    \/ \E c \in {x \in CreateInputs : x.source = "variants"} :
            create_cmd(w, c.target, c.source, c.filters)
    \/ set_cmd(w, "C", "A", "B", "+")
    \/ count_query_step(w)
    \/ insert_selection_step(w)
    \/ drop_index_step(w)
    \/ bulk_insert_step(w)
    \/ create_index_step(w)
    \/ commit_step(w)

NextInterleaved == \E w \in Workers : InterleavedStep(w)

SpecInterleaved == Init /\ [][NextInterleaved]_vars

---------------------------------------------------------------------------
(* The sequential specification of the commands that read a file            *)

FileStep(w) ==
    \/ \E path \in {"regions.bed", "missing.bed"}, target \in SelectionNames,
          source \in {"variants", "A"} : bed_cmd(w, path, target, source)
    \/ \E feature \in {"sets", "selections"}, name \in SelectionNames,
          path \in {"words.txt", "missing.txt"} : import_cmd(w, feature, name, path)
    \/ \E feature \in {"selections", "sets"}, name \in SelectionNames :
            drop_cmd(w, feature, name)

NextFiles == FileStep(MainWorker)

SpecFiles == Init /\ [][NextFiles]_vars

---------------------------------------------------------------------------
(* The specification of the compiler: a call of build_query,               *)
(* filters_to_flat or filters_to_sql with arguments drawn at the start      *)

\* depth of the filter trees
MaxDepth == 2

\* the catalogs given to build_query
CompileTables ==
    [chr |-> "variants", pos |-> "variants", rsid |-> "variants",
     annotations_count |-> "variants", impact |-> "annotations"]
SampleIndexes == { [alice |-> 7, bob |-> 8], [bob |-> 8] }

\* conditions: a number, a list, a genotype field with a tuple value
LeafNumber == [field |-> PyStr("pos"), operator |-> "=", value |-> PyInt(3)]
LeafList == [field |-> PyStr("ref"), operator |-> "IN", value |-> PyList(<<"A", "T">>)]
LeafGenotype ==
    [field |-> PyTuple(<<"sample", "alice", "gt">>), operator |-> "IN",
     value |-> PyTuple(<<"set", "A">>)]
Leaves == {LeafNumber, LeafList, LeafGenotype}

\* the lists of children of a logic node over the trees sub: none, one tree,
\* a tree and a condition in both orders
ChildLists(sub) ==
    {<<>>} \cup {<<t>> : t \in sub}
           \cup {<<t, l>> : t \in sub, l \in Leaves}
           \cup {<<l, t>> : l \in Leaves, t \in sub}

\* the filter trees of depth at most d
RECURSIVE FilterTrees(_)
FilterTrees(d) ==
    IF d = 0 THEN Leaves
    ELSE LET lists == ChildLists(FilterTrees(d - 1))
         IN  Leaves \cup {[AND |-> c] : c \in lists} \cup {[OR |-> c] : c \in lists}

\* the values of the HAS conditions
HasValues == {"test", "test\"x'y", "'", "\"\"", "it's", "%a_b"}
HasConditions ==
    {[field |-> PyStr("gene"), operator |-> o, value |-> PyStr(v)] :
        o \in {"HAS", "has"}, v \in HasValues}

\* conditions on a number under the comparison operators and under two
\* operators the language does not have; conditions under IN and NOT IN
\* whose value is the text of a list
OperatorConditions ==
    {[field |-> PyStr("pos"), operator |-> o, value |-> PyInt(3)] :
        o \in {"=", "!=", "<", "<=", ">", ">=", "~", "LIKES", "=>"}}
    \cup {[field |-> PyStr("ref"), operator |-> o, value |-> PyStr(v)] :
            o \in {"IN", "NOT IN"}, v \in {"('A', 'T', 'G', 'C')", "(1, 2)"}}

FilterInputs ==
    {<<>>} \cup FilterTrees(MaxDepth) \cup HasConditions \cup OperatorConditions

\* the arguments of build_query
FieldInputs ==
    { <<PyStr("chr"), PyStr("pos")>>,
      <<PyStr("id"), PyStr("chr")>>,
      <<PyStr("rsid"), PyStr("chr")>>,
      <<PyStr("impact")>>,
      <<PyStr("annotations_count")>>,
      <<PyTuple(<<"sample", "alice", "gt">>)>>,
      <<PyTuple(<<"sample", "alice", "gt">>), PyTuple(<<"sample", "alice", "dp">>)>>,
      <<PyTuple(<<"sample", "bob", "gt">>), PyStr("chr")>>,
      <<>> }
QueryFilterInputs ==
    { <<>>, LeafNumber, LeafGenotype,
      [AND |-> <<[field |-> PyStr("impact"), operator |-> "=", value |-> PyStr("HIGH")]>>],
      [AND |-> <<[field |-> PyStr("annotations_count"), operator |-> ">",
                  value |-> PyInt(0)]>>],
      [OR |-> <<LeafNumber, [AND |-> <<LeafList, LeafNumber>>]>>],
      [AND |-> <<>>], [AND |-> <<[OR |-> <<>>]>>],
      [AND |-> <<LeafNumber, [OR |-> <<>>]>>] }
BuildQueryInputs ==
    [ cmd : {"build_query"}, fields : FieldInputs, source : {"variants", "A"},
      filters : QueryFilterInputs,
      order : {[by |-> <<>>, desc |-> TRUE], [by |-> PyStr("pos"), desc |-> TRUE],
               [by |-> PyStr("pos"), desc |-> FALSE]},
      limit : {NoneInt, SomeInt(5)}, offset : {NoneInt, SomeInt(10)},
      group_by : {<<>>, <<"chr", "pos">>, <<"pos", "chr">>}, samples : SampleIndexes ]

\* the texts of the parser: conditions, and expressions of one to three
\* terms joined by one operator, with a group joined by either operator
VqlInputs ==
    LET ConditionTexts ==
            {"a=3", "b!=5", "c<3", "some_field IN ('one', 'two')", "gene ~ 'x'",
             "sample[\"alice\"].gt = 1"}
        ops == {"AND", "OR"}
        pairs == {<<c \o " " \o o \o " " \o d, o>> : c \in ConditionTexts,
                    d \in {"b!=5", "c<3", "sample[\"alice\"].gt = 1"}, o \in ops}
        ExpressionTexts ==
        ConditionTexts
        \cup {p[1] : p \in pairs}
        \cup {"(" \o c \o ")" : c \in ConditionTexts}
        \cup {p[1] \o " " \o p[2] \o " c=3" : p \in pairs}
        \cup {c \o " " \o o \o " (" \o p[1] \o ")" : c \in {"a=3", "gene ~ 'x'"},
                o \in ops, p \in pairs}
        \cup {"(" \o p[1] \o ") " \o o \o " " \o c : c \in {"a=3", "gene ~ 'x'"},
                o \in ops, p \in pairs}
        \cup {"a=3 AND b!=5 AND c<3", "a=3 AND (b=5 OR c=3)"}
        \cup {"a=3 AND b=5 OR c=3", "a=3 AND (b=5", "a=3 AND", "a 3"}
    IN  {"COUNT FROM variants"}
        \cup {"COUNT FROM variants WHERE " \o e : e \in ExpressionTexts}

CompileInputs ==
    BuildQueryInputs
        \cup {[cmd |-> c, source |-> s] : c \in {"parse_vql", "filters_to_vql"},
                                          s \in VqlInputs}
        \cup {[cmd |-> "filters_to_flat", filters |-> f] : f \in FilterInputs}
        \cup {[cmd |-> "filters_to_sql", filters |-> f] : f \in FilterInputs}

InitCompile ==
    /\ db = EmptyDb
    /\ committed = EmptyDb
    /\ cache = <<>>
    /\ pc = [w \in Workers |-> "idle"]
    /\ call \in {[w \in Workers |-> IF w = MainWorker THEN c ELSE [cmd |-> "none"]] :
                    c \in CompileInputs}
    /\ local = [w \in Workers |-> NoLocal]
    /\ result = [w \in Workers |-> NoResult]
    /\ trace = [w \in Workers |-> <<>>]
    /\ faults = 0

\* the call returns what the function computes
Apply(w, function, value) ==
    /\ pc[w] = "idle"
    /\ call[w].cmd = function
    /\ Return(w, value, <<>>)
    /\ UNCHANGED <<db, committed, cache, call, faults>>

build_query_apply(w) ==
    LET c == call[w]
    IN  Apply(w, "build_query",
              build_query(c.fields, c.source, c.filters, c.order.by, c.order.desc,
                          c.limit, c.offset, c.group_by, CompileTables, c.samples))

filters_to_flat_apply(w) ==
    Apply(w, "filters_to_flat", filters_to_flat(call[w].filters))

filters_to_sql_apply(w) ==
    Apply(w, "filters_to_sql", filters_to_sql(call[w].filters, CompileTables))

\* vql.parse_vql on a text of one statement
parse_vql_apply(w) == Apply(w, "parse_vql", parse_vql(call[w].source))

\* the filters of a parsed statement written by filters_to_vql and parsed again
filters_to_vql_apply(w) ==
    LET statement == parse_vql(call[w].source)
        vql == filters_to_vql(statement.filters)
    IN  /\ call[w].cmd = "filters_to_vql"
        /\ ~IsRaised(statement)
        /\ Apply(w, "filters_to_vql",
                 [filters |-> statement.filters, vql |-> vql,
                  parsed |-> parse_vql("COUNT FROM variants"
                                        \o (IF vql = "" THEN "" ELSE " WHERE " \o vql))])

NextCompile ==
    \/ parse_vql_apply(MainWorker)
    \/ filters_to_vql_apply(MainWorker)
    \/ build_query_apply(MainWorker)
    \/ filters_to_flat_apply(MainWorker)
    \/ filters_to_sql_apply(MainWorker)

SpecCompile == InitCompile /\ [][NextCompile]_vars

---------------------------------------------------------------------------
(* Properties of the commands *)

\* the elements of a sequence
Range(t) == {t[i] : i \in DOMAIN t}

\* worker w has returned from, or raised in, a call of cmd
Done(w, cmd) == pc[w] \in {"done", "raised"} /\ call[w].cmd = cmd

\* worker w takes the step: it calls a command or goes on in one
WorkerActed(w) ==
    <<pc[w], call[w], local[w], result[w], trace[w]>>
        # <<pc'[w], call'[w], local'[w], result'[w], trace'[w]>>

\* a create with a null target, a set with a null in one of its arguments
NullCall(c) ==
    \/ c.cmd = "create_cmd" /\ c.target = None
    \/ c.cmd = "set_cmd" /\ None \in {c.target, c.first, c.second, c.operator}

\* create_cmd or set_cmd, called with no null, has returned
ReachedEnd(w) ==
    /\ call[w].cmd \in {"create_cmd", "set_cmd"}
    /\ ~NullCall(call[w])
    /\ pc[w] = "done"

\* the variants that are members of the selections named name
MembersOf(d, name) ==
    {m.variant_id : m \in {x \in d.shv : \E s \in d.selections :
                                            s.name = name /\ s.id = x.selection_id}}

\* the selection row inserted last and its members
Newest(d) == CHOOSE s \in d.selections : \A t \in d.selections : t.id <= s.id
NewestMembers(d) == {m.variant_id : m \in {x \in d.shv : x.selection_id = Newest(d).id}}

\* the query count_cmd is to count, the query select_cmd is to run
CountQuery(c) ==
    build_query(c.fields, c.source, c.filters, <<>>, FALSE, NoneInt, NoneInt,
                c.group_by, default_tables, samples_ids)
SelectQuery(c) ==
    build_query(c.fields, c.source, c.filters, <<>>, TRUE, c.limit, c.offset,
                <<>>, default_tables, samples_ids)

\* t is what is left of rows after some of its first elements
IsSuffix(t, rows) ==
    Len(t) <= Len(rows) /\ t = SubSeq(rows, Len(rows) - Len(t) + 1, Len(rows))

\* C1: a count command that ends after a create or set command has
\* materialized a selection returns the number of rows that match its
\* arguments in the data as it is at that moment.
C1_CountAfterMutation ==
    \A w \in Workers :
        (Done(w, "count_cmd") /\ committed.selections # {})
            => result[w] = [count |-> count_query(db, CountQuery(call[w]))]

\* C2: count_cmd compiles its arguments without LIMIT, executes the count of
\* the compiled query and returns {count: n}, n the number of rows of the
\* unpaginated query.
C2_CountReturnsRowCount ==
    \A w \in Workers :
        Done(w, "count_cmd")
            => /\ CountQuery(call[w]).limit = NoneInt
               /\ "execute" \in Range(trace[w])
               /\ result[w] = [count |-> Cardinality(Rows(CountQuery(call[w]), db))]

\* C3: once iterated, select_cmd yields the rows of the query compiled with
\* its limit and offset, one by one from the first, and stops after the last.
C3_SelectYieldsRows ==
    \A w \in Workers :
        (call[w].cmd = "select_cmd" /\ pc[w] \in {"gen_run", "done", "raised"})
            => LET rows == execute_select(db, SelectQuery(call[w]))
               IN  IF pc[w] = "gen_run"
                   THEN IsSuffix(<<result[w]>> \o local[w].pending, rows)
                   ELSE result[w] = Raised("StopIteration", "end")

\* C4: set_cmd with "+", "-", "&" materializes a selection named target whose
\* members are the union, the difference (first minus second), the
\* intersection of the members of first and second, and whose count is the
\* number of those members.
C4_SetAlgebra ==
    \A w \in Workers :
        (ReachedEnd(w) /\ call[w].cmd = "set_cmd")
            => LET c == call[w]
                   first == MembersOf(db, c.first)
                   second == MembersOf(db, c.second)
                   expected == IF c.operator = "+" THEN first \cup second
                               ELSE IF c.operator = "-" THEN first \ second
                               ELSE first \cap second
               IN  /\ c.operator \in {"+", "-", "&"}
                   /\ Newest(db).name = c.target
                   /\ NewestMembers(db) = expected
                   /\ Newest(db).count = Cardinality(expected)

\* a difference of two selections that overlap and differ has been materialized
C4_Witness ==
    \E w \in Workers :
        /\ ReachedEnd(w) /\ call[w].cmd = "set_cmd" /\ call[w].operator = "-"
        /\ MembersOf(db, "A") = {1, 3}
        /\ MembersOf(db, "B") = {1, 2}
        /\ NewestMembers(db) = {3}
        /\ Newest(db).count = 1

\* the steps of a command that write
WriteSteps(t) ==
    SelectSeq(t, LAMBDA x : x \notin {"get_fields", "get_samples", "count_query"})

\* C5: when create_cmd or set_cmd reaches its end, it has inserted the
\* selection row, dropped the membership index (or passed over the failure of
\* dropping an index that was not there), inserted the members, rebuilt the
\* index and committed, in that order, each once; the index exists and
\* nothing is left uncommitted.
C5_StepOrder ==
    \A w \in Workers :
        ReachedEnd(w)
            => /\ WriteSteps(trace[w]) \in
                    { <<"insert_selection", d, "bulk_insert", "create_index", "commit">> :
                        d \in {"drop_index", "drop_index_error_passed"} }
               /\ db.index
               /\ committed = db

\* a command has reached its end on a database that had no membership index
C5_Witness ==
    \E w \in Workers :
        ReachedEnd(w) /\ "drop_index_error_passed" \in Range(trace[w]) /\ db.index

\* C6: a step of create_cmd or set_cmd that raises before the commit commits
\* nothing and undoes nothing: what the command wrote so far stays in the
\* open transaction.
C6_NoCommitOnError ==
    [][\A w \in Workers :
            (/\ call[w].cmd \in {"create_cmd", "set_cmd"}
             /\ pc[w] \in {"count_query", "insert_selection", "drop_index",
                           "bulk_insert", "create_index"}
             /\ pc'[w] = "raised")
                => /\ committed' = committed
                   /\ db' = db
                   /\ "commit" \notin Range(trace'[w])]_vars

\* the index rebuild has failed: the selection row, its members and the index
\* drop are in the database and not committed
C6_Witness ==
    \E w \in Workers :
        /\ Done(w, "create_cmd") /\ result[w] = Raised("sqlite3.Error", "create_index")
        /\ "bulk_insert" \in Range(trace[w])
        /\ ~db.index /\ committed.index
        /\ db.selections # committed.selections
        /\ db.shv # committed.shv

\* C7 as stated: create_cmd with a null target raises
C7_NullTargetRaises ==
    \A w \in Workers :
        (Done(w, "create_cmd") /\ call[w].target = None) => IsRaised(result[w])

\* C7: create_cmd with a null target returns an empty dictionary and does not
\* raise.
C7_NullTargetReturnsEmpty ==
    \A w \in Workers :
        (Done(w, "create_cmd") /\ call[w].target = None)
            => pc[w] = "done" /\ result[w] = EmptyDict

\* create_cmd has been called with a null target
C7_Witness ==
    \E w \in Workers :
        Done(w, "create_cmd") /\ call[w].target = None /\ result[w] = EmptyDict

\* C8: a call of create_cmd with a null target, or of set_cmd with a null
\* target, first, second or operator, returns an empty dictionary in the one
\* step, with no write step, and leaves the database and what is committed as
\* they were.
C8_NullIsNoOp ==
    [][\A w \in Workers :
            (Ready(w) /\ WorkerActed(w) /\ NullCall(call'[w]))
                => /\ pc'[w] = "done"
                   /\ result'[w] = EmptyDict
                   /\ WriteSteps(trace'[w]) = <<>>
                   /\ db' = db
                   /\ committed' = committed]_vars

\* set_cmd has been called with a null operator on a database with selections
C8_Witness ==
    \E w \in Workers :
        /\ Done(w, "set_cmd") /\ call[w].operator = None
        /\ result[w] = EmptyDict
        /\ db.selections # {}

\* the rows of the table of feature that bear the name
NamedRows(d, feature, name) ==
    IF feature = "selections" THEN {r \in d.selections : r.name = name}
    ELSE {r \in d.sets : r.name = name}

\* C9: drop_cmd on selections or sets returns {success: true} whether or not
\* a row bears the name; afterwards no row of the table bears it; when none
\* bore it the database stays as it was, so that a second drop of the name
\* changes nothing; the delete is committed.
C9_DropIdempotent ==
    [][\A w \in Workers :
            (/\ Ready(w) /\ WorkerActed(w)
             /\ call'[w].cmd = "drop_cmd"
             /\ call'[w].feature \in {"selections", "sets"})
                => LET c == call'[w]
                   IN  /\ pc'[w] = "done"
                       /\ result'[w] = [success |-> TRUE]
                       /\ NamedRows(db', c.feature, c.name) = {}
                       /\ NamedRows(db, c.feature, c.name) = {} => db' = db
                       /\ committed' = db']_vars

\* a selection has been dropped while another one stays
C9_Witness ==
    \E w \in Workers :
        /\ Done(w, "drop_cmd") /\ call[w].feature = "selections"
        /\ result[w] = [success |-> TRUE]
        /\ db.selections # {}
        /\ {m \in db.shv : \A s \in db.selections : s.id # m.selection_id} = {}
        /\ call[w].name = "A"
        /\ \E s \in db.selections : s.id > 1 /\ \A t \in db.selections : t.id # 1

\* a show, drop or import with a feature its command does not accept
UnknownFeature(c) ==
    \/ c.cmd = "show_cmd" /\ c.feature \notin {"selections", "fields", "samples", "sets"}
    \/ c.cmd = "drop_cmd" /\ c.feature \notin {"selections", "sets"}
    \/ c.cmd = "import_cmd" /\ c.feature \notin {"sets"}

\* C10: show_cmd, drop_cmd and import_cmd with a feature they do not accept
\* raise the error of an unknown feature when their body runs (drop_cmd and
\* import_cmd at the call, show_cmd, a generator, at the first next), and make
\* no call to the storage: the database and what is committed stay as they
\* were.
C10_UnknownFeatureRaises ==
    [][\A w \in Workers :
            (WorkerActed(w) /\ UnknownFeature(call'[w]))
                => /\ db' = db
                   /\ committed' = committed
                   /\ trace'[w] = <<>>
                   /\ \/ /\ pc'[w] = "raised"
                         /\ result'[w] = Raised("VQLSyntaxError", "feature")
                      \/ /\ call'[w].cmd = "show_cmd"
                         /\ Ready(w) /\ pc'[w] = "gen_new"]_vars

\* the generator of a show with an unknown feature has raised at its first next
C10_Witness ==
    \E w \in Workers :
        /\ Done(w, "show_cmd") /\ UnknownFeature(call[w])
        /\ result[w] = Raised("VQLSyntaxError", "feature")
        /\ db.selections # {}

\* a bed import or an import of a set whose file does not exist
MissingPath(c) ==
    \/ c.cmd = "bed_cmd" /\ c.path \notin ExistingPaths
    \/ c.cmd = "import_cmd" /\ c.feature = "sets" /\ c.path \notin ExistingPaths

C12_OneResultPerStatement ==
    \A w \in Workers :
        (call[w].cmd = "execute_all" /\ pc[w] \in {"gen_run", "raised", "done"})
            => IF pc[w] = "gen_run"
               THEN /\ result[w] = [success |-> TRUE]
                    /\ IsSuffix(local[w].pending, call[w].vql_source)
                    /\ Len(local[w].pending) < Len(call[w].vql_source)
               ELSE result[w] = Raised("StopIteration", "end")

\* the call of build_query by the main worker has returned
Compiled == Done(MainWorker, "build_query")
\* its arguments and the SQL text it returned
Args == call[MainWorker]
Sql == result[MainWorker].sql

\* C13: build_query called with an empty filter tree returns a text without
\* the keyword WHERE, whatever the fields, the source, the ordering, the
\* grouping and the pagination are.
C13_EmptyFiltersNoWhere ==
    (Compiled /\ Args.filters = <<>>) => ~Contains(Sql, "WHERE")

\* a query with no filter, on a selection, grouped, ordered and paginated
C13_Witness ==
    /\ Compiled /\ Args.filters = <<>>
    /\ Args.source = "A" /\ Args.group_by # <<>> /\ Args.order.by # <<>>
    /\ Args.limit # <<>>
    /\ Contains(Sql, " GROUP BY ") /\ Contains(Sql, " ORDER BY ")
    /\ Contains(Sql, " LIMIT ")

\* C14: build_query called with limit=None returns a text with neither LIMIT
\* nor OFFSET, whatever the offset argument is.
C14_NoLimitNoPage ==
    (Compiled /\ Args.limit = NoneInt)
        => ~Contains(Sql, "LIMIT") /\ ~Contains(Sql, "OFFSET")

\* a query with no limit and an offset, filtered and ordered; the text ends
\* with the ORDER BY clause
C14_Witness ==
    /\ Compiled /\ Args.limit = NoneInt /\ Args.offset = SomeInt(10)
    /\ Args.filters = LeafNumber /\ Args.order.by # <<>>
    /\ IsSuffix(" ORDER BY " \o BQ \o "variants" \o BQ \o "." \o BQ \o "pos" \o BQ \o " DESC", Sql)

\* a node of a filter tree is a condition, or a logic node over a list
IsCondition(node) == node # <<>> /\ DOMAIN node = {"field", "operator", "value"}
ChildrenOf(node) == IF "AND" \in DOMAIN node THEN node.AND ELSE node.OR

\* the paths (child positions from the root) of the conditions of a tree
RECURSIVE LeafPaths(_)
LeafPaths(tree) ==
    IF tree = <<>> THEN {}
    ELSE IF IsCondition(tree) THEN {<<>>}
    ELSE UNION { {<<i>> \o p : p \in LeafPaths(ChildrenOf(tree)[i])} :
                    i \in DOMAIN ChildrenOf(tree) }

\* the node a path leads to
RECURSIVE NodeAt(_, _)
NodeAt(tree, path) ==
    IF path = <<>> THEN tree ELSE NodeAt(ChildrenOf(tree)[Head(path)], Tail(path))

\* p is left of q: at the first position they differ p takes the earlier child
LeftOf(p, q) ==
    \E k \in 1..Len(p) :
        k <= Len(q) /\ SubSeq(p, 1, k - 1) = SubSeq(q, 1, k - 1) /\ p[k] < q[k]

\* the call of filters_to_flat by the main worker has returned
Flattened == Done(MainWorker, "filters_to_flat")
Flat == result[MainWorker]

\* C15: filters_to_flat returns one item per condition of the tree, each
\* condition once, the i-th item being the condition with i-1 conditions to
\* its left, for every depth and every mix of AND and OR, the empty tree and
\* a tree that is one condition included.
C15_FlatIsPreOrder ==
    Flattened =>
        LET paths == LeafPaths(Args.filters)
        IN  /\ Len(Flat) = Cardinality(paths)
            /\ \A p \in paths :
                    Flat[Cardinality({q \in paths : LeftOf(q, p)}) + 1]
                        = NodeAt(Args.filters, p)

\* a tree of depth two with three conditions under AND and OR, one with a
\* list and one with a tuple as value, has been flattened
C15_Witness ==
    /\ Flattened
    /\ Args.filters = [AND |-> <<[OR |-> <<LeafList, LeafGenotype>>], LeafNumber>>]
    /\ Flat = <<LeafList, LeafGenotype, LeafNumber>>

\* the SELECT list without the count column of a grouped query
SelectedColumns ==
    LET cols == result[MainWorker].select
    IN  IF Args.group_by # <<>> THEN <<cols[1]>> \o SubSeq(cols, 3, Len(cols)) ELSE cols

\* C16: the SELECT list is the identifier column of variants, then every
\* requested field in input order, a field being left out only when it is
\* named id.
C16_SelectListKeepsFields ==
    Compiled =>
        LET requested == SelectSeq(Args.fields, LAMBDA col : col # PyStr("id"))
        IN  SelectedColumns
                = << BQ \o "variants" \o BQ \o "." \o BQ \o "id" \o BQ >>
                  \o [i \in DOMAIN requested |->
                        fields_to_sql(requested[i], CompileTables, TRUE)]

IdColumn == BQ \o "variants" \o BQ \o "." \o BQ \o "id" \o BQ
CountColumn == "COUNT(" \o IdColumn \o ") as 'count'"
IsPrefix(t, text) == Len(t) <= Len(text) /\ t = SubSeq(text, 1, Len(t))
\* the number of places of text where t stands
Occurrences(text, t) ==
    Cardinality({i \in 1..Len(text) : i + Len(t) - 1 <= Len(text)
                                       /\ SubSeq(text, i, i + Len(t) - 1) = t})

\* C17: with a group_by the SELECT list has the count column, aliased count,
\* right after the identifier column and before every field, and the text
\* has one GROUP BY clause with the given names joined by commas in input
\* order; without a group_by the text has neither.
C17_GroupByCount ==
    Compiled =>
        LET cols == result[MainWorker].select
        IN  IF Args.group_by # <<>>
            THEN /\ Len(cols) >= 2 /\ cols[1] = IdColumn /\ cols[2] = CountColumn
                 /\ \A i \in 3..Len(cols) : ~Contains(cols[i], "COUNT(")
                 /\ IsPrefix("SELECT " \o IdColumn \o "," \o CountColumn, Sql)
                 /\ Occurrences(Sql, "COUNT(") = 1
                 /\ Occurrences(Sql, " GROUP BY ") = 1
                 /\ \/ IsSuffix(" GROUP BY " \o JoinStr(",", Args.group_by), Sql)
                    \/ Contains(Sql, " GROUP BY " \o JoinStr(",", Args.group_by) \o " ")
            ELSE ~Contains(Sql, "COUNT(") /\ ~Contains(Sql, "GROUP BY")

\* chr and pos grouped by chr,pos with a filter: the count column stands
\* between the identifier and chr, the clause follows the WHERE clause
C17_Witness ==
    /\ Compiled /\ Args.group_by = <<"chr", "pos">>
    /\ Args.fields = <<PyStr("chr"), PyStr("pos")>> /\ Args.filters = LeafNumber
    /\ Len(result[MainWorker].select) = 4
    /\ result[MainWorker].select[2] = CountColumn
    /\ Contains(Sql, " WHERE ") /\ IsSuffix(" GROUP BY chr,pos", Sql)

\* the field resolves to a column of the annotations table
ResolvesToAnnotations(field) ==
    IsPrefix(BQ \o "annotations" \o BQ \o ".", fields_to_sql(field, CompileTables, FALSE))

\* the fields of the conditions of the filter tree of the call
FilterFields ==
    {NodeAt(Args.filters, p).field : p \in LeafPaths(Args.filters)}

\* C18: the text has the LEFT JOIN of annotations exactly when a selected
\* field or the field of a condition resolves to the annotations table.
C18_AnnotationsJoinIffResolved ==
    Compiled =>
        (Contains(Sql, " LEFT JOIN annotations ")
            <=> \E field \in Range(Args.fields) \cup FilterFields :
                    ResolvesToAnnotations(field))

\* the samples the call names through the genotype function, in its fields
\* or in the conditions of its filters
ReferencedSamples ==
    {field.tuple[2] : field \in {f \in Range(Args.fields) \cup FilterFields :
                                    IsTuple(f) /\ f.tuple[1] = GENOTYPE_FUNC_NAME}}

SampleAlias(name) == BQ \o GENOTYPE_FUNC_NAME \o "_" \o name \o BQ

\* C19: for every sample named through the genotype function in the fields
\* or the filters and present in the sample index the text has exactly one
\* INNER JOIN of the genotype table under the alias of the sample, bound to
\* the identifier of the sample; a sample that is not in the index, or not
\* named, has no join.
C19_OneJoinPerSample ==
    Compiled =>
        \A name \in {"alice", "bob"} :
            LET join == " INNER JOIN sample_has_variant " \o SampleAlias(name) \o " ON "
            IN  IF name \in ReferencedSamples /\ name \in DOMAIN Args.samples
                THEN /\ Occurrences(Sql, join) = 1
                     /\ Contains(Sql, SampleAlias(name) \o ".sample_id = "
                                          \o ToString(Args.samples[name]))
                ELSE Occurrences(Sql, join) = 0

\* the call of filters_to_sql by the main worker has returned
Rendered == Done(MainWorker, "filters_to_sql")
\* the call renders one HAS condition on a string
IsHasCall ==
    /\ Args.filters # <<>> /\ IsCondition(Args.filters)
    /\ Args.filters.operator \in {"HAS", "has"} /\ IsStr(Args.filters.value)

\* C20: a HAS condition on the string v is rendered as field LIKE 'p' where
\* p is %, then v with every single and double quote replaced by %, then %.
C20_HasPattern ==
    (Rendered /\ IsHasCall) =>
        LET v == Args.filters.value.str
            text == result[MainWorker]
            before == BQ \o "gene" \o BQ \o " LIKE '%"
            pattern == SubSeq(text, Len(before) + 1, Len(before) + Len(v))
        IN  /\ Len(text) = Len(before) + Len(v) + 2
            /\ IsPrefix(before, text)
            /\ IsSuffix("%'", text)
            /\ \A i \in 1..Len(v) :
                    SubSeq(pattern, i, i)
                        = IF SubSeq(v, i, i) \in {"'", "\""} THEN "%" ELSE SubSeq(v, i, i)

\* the value test"x'y has been rendered
C20_Witness ==
    /\ Rendered /\ IsHasCall
    /\ Args.filters.value = PyStr("test\"x'y")
    /\ result[MainWorker] = BQ \o "gene" \o BQ \o " LIKE '%test%x%y%'"

\* the comparison operators of the language
KnownOperators == {"=", "!=", "<", "<=", ">", ">=", "IN", "NOT IN", "~", "HAS"}

\* C21: a condition with an operator outside the comparison operators of the
\* language makes filters_to_sql fail with CompileError; no text is returned.
C21_UnknownOperatorRaises ==
    (Rendered /\ Args.filters # <<>> /\ IsCondition(Args.filters)
              /\ Upper(Args.filters.operator) \notin KnownOperators)
        => /\ pc[MainWorker] = "raised"
           /\ result[MainWorker] = Raised("CompileError", "operator")

\* the call that writes and parses a filter tree again has returned
RoundTripped == Done(MainWorker, "filters_to_vql")

\* a tree without the logic nodes that hold one logic node and nothing else
RECURSIVE Canonical(_)
Canonical(tree) ==
    IF tree = <<>> \/ IsCondition(tree) THEN tree
    ELSE LET children == [i \in DOMAIN ChildrenOf(tree) |-> Canonical(ChildrenOf(tree)[i])]
         IN  IF Len(children) = 1 /\ ~IsCondition(children[1]) /\ children[1] # <<>>
             THEN children[1]
             ELSE IF "AND" \in DOMAIN tree THEN [AND |-> children] ELSE [OR |-> children]

\* C22: the text filters_to_vql writes for the filter tree of a parsed
\* statement parses to an equivalent tree: the same logic operators, the
\* same nesting, the same conditions in the same order.
C22_RoundTrip ==
    RoundTripped =>
        /\ ~IsRaised(result[MainWorker].parsed)
        /\ Canonical(result[MainWorker].parsed.filters)
                = Canonical(result[MainWorker].filters)

\* the call of the parser has returned a statement
ParsedStatement ==
    Done(MainWorker, "parse_vql") /\ ~IsRaised(result[MainWorker])

\* the number of logic nodes of a tree
RECURSIVE LogicNodes(_)
LogicNodes(tree) ==
    IF tree = <<>> \/ IsCondition(tree) THEN 0
    ELSE LET children == ChildrenOf(tree)
             below[i \in 0..Len(children)] ==
                 IF i = 0 THEN 0 ELSE below[i - 1] + LogicNodes(children[i])
         IN  1 + below[Len(children)]

\* the number of places where the nodes of operator op join two children
RECURSIVE JoinedBy(_, _)
JoinedBy(tree, op) ==
    IF tree = <<>> \/ IsCondition(tree) THEN 0
    ELSE LET children == ChildrenOf(tree)
             below[i \in 0..Len(children)] ==
                 IF i = 0 THEN 0 ELSE below[i - 1] + JoinedBy(children[i], op)
         IN  (IF op \in DOMAIN tree THEN Len(children) - 1 ELSE 0) + below[Len(children)]

Condition(field, operator, value) ==
    [field |-> PyStr(field), operator |-> operator, value |-> PyInt(value)]

\* C23: the parser keeps AND and OR apart: a run of conditions joined by one
\* operator is one logic node over them in source order, a group in
\* parentheses is a logic node of its own under the outer node, and a
\* statement without WHERE has the empty tree.  So the tree has one logic
\* node per run, and its AND nodes and OR nodes join as many children as
\* the text has AND and OR.
C23_OperatorsKeptApart ==
    ParsedStatement =>
        LET text == Args.source
            tree == result[MainWorker].filters
        IN  /\ ~Contains(text, " WHERE ") => tree = <<>>
            /\ Contains(text, " WHERE ") =>
                    /\ tree # <<>> /\ ~IsCondition(tree)
                    /\ LogicNodes(tree)
                            = 1 + Occurrences(text, "(") - Occurrences(text, "IN (")
                    /\ JoinedBy(tree, "AND") = Occurrences(text, " AND ")
                    /\ JoinedBy(tree, "OR") = Occurrences(text, " OR ")
                    /\ Len(filters_to_flat(tree))
                            = 1 + Occurrences(text, " AND ") + Occurrences(text, " OR ")
            /\ text = "COUNT FROM variants WHERE a=3 AND b!=5 AND c<3" =>
                    tree = [AND |-> <<Condition("a", "=", 3), Condition("b", "!=", 5),
                                      Condition("c", "<", 3)>>]
            /\ text = "COUNT FROM variants WHERE a=3 AND (b=5 OR c=3)" =>
                    tree = [AND |-> <<Condition("a", "=", 3),
                                      [OR |-> <<Condition("b", "=", 5),
                                                Condition("c", "=", 3)>>]>>]

\* a=3 AND (b=5 OR c=3) has been parsed to an AND node over a condition and
\* an OR node
C23_Witness ==
    /\ ParsedStatement
    /\ Args.source = "COUNT FROM variants WHERE a=3 AND (b=5 OR c=3)"
    /\ DOMAIN result[MainWorker].filters = {"AND"}
    /\ Len(result[MainWorker].filters.AND) = 2
    /\ DOMAIN result[MainWorker].filters.AND[2] = {"OR"}

\* worker w is at an SQL statement of create_cmd or set_cmd
AtStatement(w) ==
    /\ call[w].cmd \in {"create_cmd", "set_cmd"}
    /\ local[w].sql_query # Unbound
    /\ pc[w] \in {"count_query", "insert_selection", "drop_index", "bulk_insert",
                   "create_index"}

\* C24 as stated: no handler suppresses the failure of an SQL statement; the
\* DROP INDEX of an index that is not there fails, so the handler ends there.
C24_NoFailureSuppressed ==
    [][\A w \in Workers :
            (AtStatement(w) /\ WorkerActed(w) /\ pc[w] = "drop_index" /\ ~db.index)
                => pc'[w] = "raised"]_vars

\* C24: create_cmd and set_cmd pass over the failure of DROP INDEX on an index
\* that is not there and go on with the bulk insert; the failure of any other
\* statement reaches the caller as it is, and the handler takes no further
\* step and writes nothing more.
C24_OnlyDropIndexPassed ==
    [][\A w \in Workers :
            (AtStatement(w) /\ WorkerActed(w))
                => /\ (pc[w] = "drop_index" /\ ~db.index)
                        => /\ pc'[w] = "bulk_insert"
                           /\ trace'[w] = Append(trace[w], "drop_index_error_passed")
                   /\ pc'[w] = "raised"
                        => /\ pc[w] # "drop_index"
                           /\ result'[w] = Raised("sqlite3.Error", pc[w])
                           /\ trace'[w] = trace[w]
                           /\ db' = db]_vars

\* after a failure that reached the caller and left the index dropped, the
\* next command has passed over the failure of DROP INDEX
C24_Witness ==
    \E w \in Workers :
        /\ faults > 0
        /\ pc[w] = "bulk_insert"
        /\ trace[w][Len(trace[w])] = "drop_index_error_passed"

\* C25: under IN and NOT IN a value that is the text of a list in
\* parentheses stands in the fragment as it is, with no quotes added.
C25_InValueVerbatim ==
    (Rendered /\ Args.filters # <<>> /\ IsCondition(Args.filters)
              /\ Args.filters.operator \in {"IN", "NOT IN"} /\ IsStr(Args.filters.value))
        => result[MainWorker]
               = fields_to_sql(Args.filters.field, CompileTables, FALSE)
                 \o " " \o Args.filters.operator \o " " \o Args.filters.value.str

\* every logic node of the tree has a child
RECURSIVE NoEmptyNode(_)
NoEmptyNode(tree) ==
    \/ tree = <<>>
    \/ IsCondition(tree)
    \/ /\ ChildrenOf(tree) # <<>>
       /\ \A i \in DOMAIN ChildrenOf(tree) : NoEmptyNode(ChildrenOf(tree)[i])

\* the text the claim gives for a tree: the children of a node in their
\* order with the operator between them, in parentheses unless the node has
\* one child
RECURSIVE InfixText(_)
InfixText(tree) ==
    IF IsCondition(tree) THEN condition_to_sql(tree, CompileTables)
    ELSE LET children == ChildrenOf(tree)
             op == IF "AND" \in DOMAIN tree THEN " AND " ELSE " OR "
             upto[i \in 1..Len(children)] ==
                 IF i = 1 THEN InfixText(children[1])
                 ELSE upto[i - 1] \o op \o InfixText(children[i])
         IN  IF Len(children) = 1 THEN upto[1] ELSE "(" \o upto[Len(children)] \o ")"

\* the number of logic nodes with two children or more
RECURSIVE WideNodes(_)
WideNodes(tree) ==
    IF tree = <<>> \/ IsCondition(tree) THEN 0
    ELSE LET children == ChildrenOf(tree)
             below[i \in 0..Len(children)] ==
                 IF i = 0 THEN 0 ELSE below[i - 1] + WideNodes(children[i])
         IN  (IF Len(children) >= 2 THEN 1 ELSE 0) + below[Len(children)]

\* the opening parentheses the conditions of a tree bring
ConditionParentheses(tree) ==
    LET flat == filters_to_flat(tree)
        upto[i \in 0..Len(flat)] ==
            IF i = 0 THEN 0
            ELSE upto[i - 1] + Occurrences(condition_to_sql(flat[i], CompileTables), "(")
    IN  upto[Len(flat)]

\* C26: filters_to_sql renders a logic node with two children or more as
\* its children in their order with the operator between them in one pair of
\* parentheses, and a logic node with one child as that child alone, at
\* every depth.
C26_LogicNodeRendering ==
    (Rendered /\ Args.filters # <<>> /\ NoEmptyNode(Args.filters))
        => /\ result[MainWorker] = InfixText(Args.filters)
           /\ Occurrences(result[MainWorker], "(")
                  = WideNodes(Args.filters) + ConditionParentheses(Args.filters)

\* an AND node over an OR node with one child and a condition has been
\* rendered: one pair of parentheses
C26_Witness ==
    /\ Rendered
    /\ Args.filters = [AND |-> <<[OR |-> <<LeafNumber>>], LeafList>>]
    /\ result[MainWorker]
           = "(" \o BQ \o "variants" \o BQ \o "." \o BQ \o "pos" \o BQ \o " = 3 AND "
             \o BQ \o "ref" \o BQ \o " IN ['A', 'T'])"

\* the tree has a logic node without children
HasEmptyNode(tree) == ~NoEmptyNode(tree)

\* C27: a logic node without children compiles to no predicate wherever it
\* stands in the tree: the text build_query returns has no empty pair of
\* parentheses and no AND or OR that lacks an operand.
C27_EmptyNodeNoPredicate ==
    (Compiled /\ HasEmptyNode(Args.filters))
        => /\ ~Contains(Sql, "()")
           /\ \A op \in {"AND", "OR"} :
                  /\ ~Contains(Sql, "(" \o op \o " ") /\ ~Contains(Sql, "( " \o op \o " ")
                  /\ ~Contains(Sql, " " \o op \o ")") /\ ~Contains(Sql, " " \o op \o " )")

\* worker w is inside the body of a handler
InBody(w) == ~Ready(w)

\* the selection rows of d whose command has not inserted the members yet
Unfilled(d) ==
    {s \in d.selections :
        \E w \in Workers : /\ pc[w] \in {"drop_index", "bulk_insert"}
                            /\ local[w].selection_id = s.id}

\* what is committed has the membership index and the members of every
\* selection row
GoodCommit == committed.index /\ Unfilled(committed) = {}

\* C28: a commit made while no other caller is inside a handler, as when the
\* commands run one after the other, leaves every committed selection row
\* with its members and the index in place.  (Interleaved, a commit that
\* does not is reachable: C28_Witness.)
C28_SerialCommitsAreWhole ==
    [][\A w \in Workers :
            (/\ WorkerActed(w)
             /\ committed' # committed
             /\ \A v \in Workers \ {w} : ~InBody(v))
                => GoodCommit']_vars

\* interleaved: one caller has committed while the other had inserted its
\* selection row and not yet its members, with the index dropped
C28_Witness ==
    \E w, v \in Workers :
        /\ w # v
        /\ Done(w, "create_cmd") /\ pc[w] = "done"
        /\ pc[v] = "bulk_insert"
        /\ Unfilled(committed) # {}
        /\ ~committed.index

\* the membership rows of selection id in d
MembershipRows(d, id) == {x \in d.shv : x.selection_id = id}

\* C29: after create_cmd or set_cmd has returned, the count stored on the
\* selection row it inserted is the number of membership rows inserted for
\* that selection, also when the id-only query gives a variant id once per
\* annotation row.
C29_CountIsNumberOfMembers ==
    \A w \in Workers :
        ReachedEnd(w) =>
            Newest(db).count = Cardinality(MembershipRows(db, Newest(db).id))

\* a set_cmd call with no null argument and an operator that is none of the
\* three
UnknownOperatorCall(c) ==
    /\ c.cmd = "set_cmd"
    /\ ~NullCall(c)
    /\ c.operator \notin {"+", "-", "&"}

\* C30: set_cmd called with non-null arguments and an operator other than
\* "+", "-" and "&" changes nothing and ends with an error: no step of the
\* call writes to the database (no selection row, no membership row, the
\* index is not dropped) or commits, and when the call ends it has raised.
C30_UnknownSetOperatorChangesNothing ==
    [][\A w \in Workers :
            (WorkerActed(w) /\ UnknownOperatorCall(call'[w])) =>
                /\ db' = db
                /\ committed' = committed
                /\ pc'[w] \in {"done", "raised"} =>
                        /\ pc'[w] = "raised"
                        /\ result'[w] = Raised("UnboundLocalError", "sql_query")
                        /\ Range(trace'[w]) \cap {"insert_selection", "drop_index",
                                                  "bulk_insert", "commit"} = {}]_vars

\* set_cmd with an unknown operator has ended on a database that holds the
\* two selections it names
C30_Witness ==
    \E w \in Workers :
        /\ UnknownOperatorCall(call[w])
        /\ pc[w] = "raised"
        /\ result[w] = Raised("UnboundLocalError", "sql_query")
        /\ {call[w].first, call[w].second} \subseteq {s.name : s \in db.selections}
        /\ db.index /\ committed = db

====
